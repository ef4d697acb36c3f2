------------------------------ MODULE Jobs_proofs ------------------------------
(***************************************************************************)
(* Theorems about the server's background jobs, the review of a game and   *)
(* the import of a player's games from Lichess, and the sign-in with       *)
(* Lichess that starts imports.                                            *)
(***************************************************************************)
EXTENDS GameReview, LichessImport, LichessSignIn, FiniteSetTheorems, SequenceTheorems, TLAPS

-----------------------------------------------------------------------------
(* The review of a game (GameReview) *)

\* The rows and the workers of reviews, and whether a row was left as it is.
Reviews == [status : Statuses, engine : BOOLEAN, outcome : Outcomes \union {"none"}]
Workers == [pc : {"off", "dispatched", "picked", "engine", "texts", "finishing"}, held : Statuses]
Stages == {"off", "dispatched", "picked", "engine", "texts", "finishing"}
Strandings == {"no", "by_worker", "by_boot"}

\* A process that is down has neither workers nor requests.
NothingRunsDown == ~serving => Alive = {} /\ AboutToWrite = {}

\* A game without a row has had no worker, and no request that found one.
NothingBeforeRow ==
    review.status = "none" =>
        review = NoReview /\ Alive = {} /\ \A q \in Posts : post[q] \notin {"requeue", "retry"}

\* Engine results are kept: who goes on to the texts, or asks for them again,
\* has seen them, and a worker in the engine stage has written its status.
ResultsStay ==
    /\ \A q \in Posts : post[q] = "retry" => review.engine
    /\ \A q \in Posts : worker[q].pc \in {"texts", "finishing"} => review.engine
    /\ \A q \in Posts : worker[q].pc = "engine" => worker[q].held = "running"

\* A worker that will write the row's last status: one that picked a complete
\* row up finds nothing to change at its end.
WillEnd(q) ==
    \/ worker[q].pc \in {"dispatched", "picked", "engine"}
    \/ worker[q].pc \in {"texts", "finishing"} /\ worker[q].held # "complete"

SomeoneEndsIt ==
    serving /\ review.status \in ActiveReview /\ stranded = "no" => \E q \in Posts : WillEnd(q)

\* Requests that do not overlap: one of them writes at a time, to the row it
\* read, when nobody works on the row; one worker at a time has its status.
InTurn ==
    /\ \A p, q \in AboutToWrite : p = q
    /\ \A p, q \in Alive : p = q
    /\ \A q \in Posts :
         /\ post[q] = "insert" => review.status = "none"
         /\ post[q] = "requeue" => review.status = "failed"
         /\ post[q] = "retry" => review.status = "complete" /\ review.outcome # "full"
    /\ review.status \in {"none", "failed", "complete"} => Alive = {}
    /\ \A q \in Posts :
         /\ worker[q].pc \notin {"off", "dispatched"} => worker[q].held = review.status
         /\ worker[q].pc \in {"picked", "engine"} => ~review.engine

ReviewInv ==
    /\ ReviewTypeOK /\ NothingRunsDown /\ NothingBeforeRow /\ ResultsStay /\ SomeoneEndsIt
    /\ ~raced => InTurn

\* The states of the row after a step are states of the row.
LEMMA ReviewRecords ==
    /\ NoReview \in Reviews /\ Off \in Workers
    /\ \A s \in Statuses : [NoReview EXCEPT !.status = s] \in Reviews
    /\ \A w \in Reviews, s \in Statuses : [w EXCEPT !.status = s] \in Reviews
    /\ \A w \in Reviews, o \in Outcomes : [w EXCEPT !.outcome = o] \in Reviews
    /\ \A w \in Reviews, s \in Statuses : [w EXCEPT !.status = s, !.engine = TRUE] \in Reviews
    /\ \A w \in Reviews, s \in Statuses, o \in Outcomes :
          [w EXCEPT !.status = s, !.outcome = o] \in Reviews
    /\ \A pc \in Stages, h \in Statuses : [pc |-> pc, held |-> h] \in Workers
    /\ \A w \in Workers, pc \in Stages : [w EXCEPT !.pc = pc] \in Workers
BY DEF NoReview, Off, Reviews, Workers, Stages, Statuses, ActiveReview, Outcomes

LEMMA ReviewStarts == ReviewInit => ReviewInv
<1> SUFFICES ASSUME ReviewInit PROVE ReviewInv
  OBVIOUS
<1>1. \A q \in Posts : post[q] = "unsent" /\ worker[q] = Off /\ worker[q].pc = "off"
  BY DEF ReviewInit, Off
<1>2. Alive = {} /\ AboutToWrite = {}
  BY <1>1 DEF Alive, AboutToWrite
<1>3. review = NoReview /\ review.status = "none" /\ ~review.engine /\ review.status \notin ActiveReview
  BY DEF ReviewInit, NoReview, ActiveReview
<1>4. ReviewTypeOK
  <2>1. review \in Reviews /\ worker \in [Posts -> Workers]
    BY <1>3, ReviewRecords DEF ReviewInit
  <2>2. 0 \in 0..MaxReviewStops
    BY GameReviewAssumption
  <2>3. post \in [Posts -> {"unsent", "insert", "requeue", "retry", "answered"}]
    BY DEF ReviewInit
  <2> QED BY <1>3, <2>1, <2>2, <2>3 DEF ReviewInit, ReviewTypeOK, Reviews, Workers
<1> QED BY <1>1, <1>2, <1>3, <1>4
       DEF ReviewInv, NothingRunsDown, NothingBeforeRow, ResultsStay, SomeoneEndsIt, InTurn

\* What a request makes of the row it has read.
LEMMA Dispositions ==
    ASSUME ReviewTypeOK
    PROVE  /\ Disposition \in {"insert", "answered", "requeue", "retry"}
           /\ Disposition = "insert" => review.status = "none"
           /\ Disposition = "requeue" => review.status = "failed"
           /\ Disposition = "retry" => review.status = "complete" /\ review.outcome # "full"
<1>1. review.status \in {"none", "queued", "running", "engine_done", "failed", "complete"}
  BY DEF ReviewTypeOK, Statuses, ActiveReview
<1> QED BY <1>1 DEF Disposition, ActiveReview

LEMMA ReadReviewOK ==
    ASSUME ReviewInv, NEW q \in Posts, ReadReview(q)
    PROVE  ReviewInv'
<1> USE DEF ReviewInv
<1>1. /\ Disposition \in {"insert", "answered", "requeue", "retry"}
      /\ Disposition = "insert" => review.status = "none"
      /\ Disposition = "requeue" => review.status = "failed"
      /\ Disposition = "retry" => review.status = "complete" /\ review.outcome # "full"
  BY Dispositions
<1>2. /\ serving /\ UNCHANGED <<serving, halts, review, blocked, worker, stranded>>
      /\ post'[q] = Disposition /\ \A p \in Posts \ {q} : post'[p] = post[p]
      /\ post' \in [Posts -> {"unsent", "insert", "requeue", "retry", "answered"}]
      /\ ~raced' => ~raced /\ (AboutToWrite = {} \/ Disposition = "answered")
      /\ raced' \in BOOLEAN
  BY <1>1 DEF ReadReview, ReviewTypeOK
<1>3. Alive' = Alive /\ AboutToWrite' \subseteq AboutToWrite \union {q}
      /\ (Disposition = "answered" => AboutToWrite' \subseteq AboutToWrite)
  BY <1>2 DEF Alive, AboutToWrite
<1>4. ReviewTypeOK'
  BY <1>2 DEF ReviewTypeOK
<1>5. NothingRunsDown' /\ SomeoneEndsIt'
  BY <1>2 DEF NothingRunsDown, SomeoneEndsIt, WillEnd
<1>6. NothingBeforeRow'
  BY <1>1, <1>2, <1>3 DEF NothingBeforeRow
<1>7. ResultsStay'
  BY <1>1, <1>2 DEF ResultsStay, ReviewTypeOK
<1>8. ~raced' => InTurn'
  <2> SUFFICES ASSUME ~raced' PROVE InTurn'
    OBVIOUS
  <2>1. InTurn
    BY <1>2
  <2>2. \A p, r \in AboutToWrite' : p = r
    BY <1>2, <1>3, <2>1 DEF InTurn
  <2> HIDE DEF ReviewInv
  <2> QED BY <1>1, <1>2, <1>3, <2>1, <2>2 DEF InTurn
<1> QED BY <1>4, <1>5, <1>6, <1>7, <1>8

LEMMA InsertReviewOK ==
    ASSUME ReviewInv, NEW q \in Posts, InsertReview(q)
    PROVE  ReviewInv'
<1> USE DEF ReviewInv
<1>1. /\ serving /\ UNCHANGED <<serving, halts, blocked, raced, stranded>>
      /\ post[q] = "insert" /\ post'[q] = "answered" /\ \A p \in Posts \ {q} : post'[p] = post[p]
      /\ post' \in [Posts -> {"unsent", "insert", "requeue", "retry", "answered"}]
  BY DEF InsertReview, PostAnswered, ReviewTypeOK
<1>2. AboutToWrite' \subseteq AboutToWrite /\ q \in AboutToWrite
  BY <1>1 DEF AboutToWrite
<1>3. CASE review.status = "none"
  <2>1. review = NoReview /\ Alive = {} /\ \A p \in Posts : post[p] \notin {"requeue", "retry"}
    BY <1>3 DEF NothingBeforeRow
  <2>2. review' = [NoReview EXCEPT !.status = "queued"] /\ Dispatch(q)
    BY <1>3 DEF InsertReview
  <2>3. review' \in Reviews /\ review'.status = "queued" /\ ~review'.engine
    BY <2>2, ReviewRecords DEF NoReview, Statuses, ActiveReview
  <2>4. worker' \in [Posts -> Workers] /\ worker'[q].pc = "dispatched"
        /\ \A p \in Posts \ {q} : worker'[p] = worker[p] /\ worker[p].pc = "off"
    <3>1. worker \in [Posts -> Workers] /\ worker' = [worker EXCEPT ![q] = [worker[q] EXCEPT !.pc = "dispatched"]]
      BY <2>2 DEF Dispatch, ReviewTypeOK, Workers
    <3>2. [worker[q] EXCEPT !.pc = "dispatched"] \in Workers
          /\ [worker[q] EXCEPT !.pc = "dispatched"].pc = "dispatched"
      BY <3>1 DEF Workers
    <3>3. \A p \in Posts : worker[p].pc = "off"
      BY <2>1 DEF Alive
    <3> QED BY <3>1, <3>2, <3>3
  <2>5. Alive' = {q}
    BY <2>4 DEF Alive
  <2>6. ReviewTypeOK'
    BY <1>1, <2>3, <2>4 DEF ReviewTypeOK, Reviews, Workers
  <2>7. NothingRunsDown' /\ NothingBeforeRow' /\ SomeoneEndsIt'
    BY <1>1, <2>3, <2>4 DEF NothingRunsDown, NothingBeforeRow, SomeoneEndsIt, WillEnd
  <2>8. \A p \in Posts : post'[p] \notin {"requeue", "retry"}
    BY <1>1, <2>1
  <2>9. ResultsStay'
    BY <2>4, <2>8 DEF ResultsStay
  <2>10. ~raced' => InTurn'
    <3> SUFFICES ASSUME ~raced' PROVE InTurn'
      OBVIOUS
    <3>1. InTurn
      BY <1>1
    <3>2. AboutToWrite' = {}
      BY <1>1, <1>2, <3>1 DEF InTurn, AboutToWrite
    <3>3. \A p \in Posts : post'[p] \notin {"insert", "requeue", "retry"}
      BY <3>2 DEF AboutToWrite
    <3> QED BY <2>3, <2>4, <2>5, <3>2, <3>3 DEF InTurn
  <2> QED BY <2>6, <2>7, <2>9, <2>10
<1>4. CASE review.status # "none"
  <2>1. UNCHANGED <<review, worker>>
    BY <1>4 DEF InsertReview
  <2>2. Alive' = Alive
    BY <2>1 DEF Alive
  <2>3. ReviewTypeOK'
    BY <1>1, <2>1 DEF ReviewTypeOK
  <2>4. NothingRunsDown' /\ NothingBeforeRow' /\ SomeoneEndsIt' /\ ResultsStay'
    BY <1>1, <2>1, <1>4 DEF NothingRunsDown, NothingBeforeRow, SomeoneEndsIt, WillEnd, ResultsStay
  <2>5. ~raced' => InTurn'
    BY <1>1, <1>2, <2>1, <2>2 DEF InTurn
  <2> QED BY <2>3, <2>4, <2>5
<1> QED BY <1>3, <1>4

LEMMA RequeueOK ==
    ASSUME ReviewInv, NEW q \in Posts, Requeue(q)
    PROVE  ReviewInv'
<1> USE DEF ReviewInv
<1>1. /\ serving /\ UNCHANGED <<serving, halts, blocked, raced, stranded>>
      /\ post[q] \in {"requeue", "retry"} /\ post'[q] = "answered"
      /\ \A p \in Posts \ {q} : post'[p] = post[p]
      /\ post' \in [Posts -> {"unsent", "insert", "requeue", "retry", "answered"}]
  BY DEF Requeue, PostAnswered, ReviewTypeOK
<1>2. AboutToWrite' \subseteq AboutToWrite /\ q \in AboutToWrite
  BY <1>1 DEF AboutToWrite
<1>3. review.status # "none"
  BY <1>1 DEF NothingBeforeRow
<1>4. /\ review' \in Reviews /\ review'.engine = review.engine
      /\ review'.status = IF post[q] = "requeue" THEN "queued" ELSE "engine_done"
  BY DEF Requeue, RequeueStatus, ReviewTypeOK, Reviews, Statuses, ActiveReview
<1>5. worker' \in [Posts -> Workers] /\ worker'[q].pc = "dispatched"
      /\ \A p \in Posts \ {q} : worker'[p] = worker[p]
  <2>1. worker \in [Posts -> Workers] /\ worker' = [worker EXCEPT ![q] = [worker[q] EXCEPT !.pc = "dispatched"]]
    BY DEF Requeue, Dispatch, ReviewTypeOK, Workers
  <2>2. [worker[q] EXCEPT !.pc = "dispatched"] \in Workers
        /\ [worker[q] EXCEPT !.pc = "dispatched"].pc = "dispatched"
    BY <2>1 DEF Workers
  <2> QED BY <2>1, <2>2
<1>6. review'.status = "engine_done" => review.engine
  BY <1>1, <1>4 DEF ResultsStay
<1>7. ReviewTypeOK'
  BY <1>1, <1>4, <1>5, <1>6 DEF ReviewTypeOK, Reviews, Workers
<1>8. NothingRunsDown' /\ NothingBeforeRow' /\ SomeoneEndsIt'
  BY <1>1, <1>4, <1>5 DEF NothingRunsDown, NothingBeforeRow, SomeoneEndsIt, WillEnd
<1>9. ResultsStay'
  BY <1>1, <1>4, <1>5 DEF ResultsStay
<1>10. ~raced' => InTurn'
  <2> SUFFICES ASSUME ~raced' PROVE InTurn'
    OBVIOUS
  <2>1. InTurn
    BY <1>1
  <2>2. AboutToWrite' = {}
    BY <1>1, <1>2, <2>1 DEF InTurn, AboutToWrite
  <2>3. \A p \in Posts : post'[p] \notin {"insert", "requeue", "retry"}
    BY <2>2 DEF AboutToWrite
  <2>4. \A p \in Posts : worker[p].pc = "off"
    BY <1>1, <2>1 DEF InTurn, Alive
  <2>5. Alive' = {q}
    BY <1>5, <2>4 DEF Alive
  <2>6. \A p \in Posts : worker'[p].pc \in {"off", "dispatched"}
    BY <1>5, <2>4
  <2> QED BY <1>4, <2>2, <2>3, <2>5, <2>6 DEF InTurn
<1> QED BY <1>7, <1>8, <1>9, <1>10

\* A step moves one worker, of a process that runs.
LEMMA WorkerMoves ==
    ASSUME ReviewTypeOK, NEW q \in Posts, NEW from, NEW to \in Stages, NEW held \in Statuses,
           StageStep(q, from, to, held)
    PROVE  /\ serving /\ worker[q].pc = from /\ UNCHANGED <<serving, halts, blocked, post, raced>>
           /\ worker' \in [Posts -> Workers]
           /\ \A p \in Posts \ {q} : worker'[p] = worker[p]
           /\ worker'[q].pc = to /\ (to # "off" => worker'[q].held = held)
<1>1. [pc |-> to, held |-> held] \in Workers /\ Off \in Workers /\ Off.pc = "off"
  BY ReviewRecords DEF Off
<1>2. worker \in [Posts -> Workers]
  BY DEF ReviewTypeOK, Workers
<1> DEFINE w == IF to = "off" THEN Off ELSE [pc |-> to, held |-> held]
<1>3. w \in Workers /\ w.pc = to /\ (to # "off" => w.held = held)
  BY <1>1
<1>4. worker' = [worker EXCEPT ![q] = w]
  BY DEF StageStep
<1> HIDE DEF w
<1>5. serving /\ worker[q].pc = from /\ UNCHANGED <<serving, halts, blocked, post, raced>>
  BY DEF StageStep
<1> QED BY <1>2, <1>3, <1>4, <1>5

\* What every step of a worker has in common.
LEMMA WorkerStepOK ==
    ASSUME ReviewInv, NEW q \in Posts, NEW from \in Stages \ {"off"}, NEW to \in Stages,
           NEW held \in Statuses, StageStep(q, from, to, held),
           stranded' \in Strandings, stranded' = "no" => stranded = "no",
           review' \in Reviews, review'.status # "none", review.engine => review'.engine,
           review'.status \in {"engine_done", "complete"} => review'.engine,
           to \in {"texts", "finishing"} => review'.engine,
           to = "engine" => held = "running",
           review'.status \in ActiveReview /\ stranded' = "no" =>
               \/ to \in {"dispatched", "picked", "engine"}
               \/ to \in {"texts", "finishing"} /\ held # "complete"
               \/ review.status \in ActiveReview /\ ~WillEnd(q),
           ~raced /\ to # "off" =>
               /\ review'.status \in ActiveReview /\ held = review'.status
               /\ to \in {"picked", "engine"} => ~review'.engine
    PROVE  ReviewInv'
<1> USE DEF ReviewInv
<1>1. /\ serving /\ worker[q].pc = from /\ UNCHANGED <<serving, halts, blocked, post, raced>>
      /\ worker' \in [Posts -> Workers]
      /\ \A p \in Posts \ {q} : worker'[p] = worker[p]
      /\ worker'[q].pc = to /\ (to # "off" => worker'[q].held = held)
  BY WorkerMoves
<1>2. AboutToWrite' = AboutToWrite /\ q \in Alive
  BY <1>1 DEF AboutToWrite, Alive
<1>3. ReviewTypeOK'
  BY <1>1 DEF ReviewTypeOK, Reviews, Workers, Strandings
<1>4. NothingRunsDown' /\ NothingBeforeRow'
  BY <1>1 DEF NothingRunsDown, NothingBeforeRow
<1>5. ResultsStay'
  BY <1>1 DEF ResultsStay
<1>6. SomeoneEndsIt'
  <2> SUFFICES ASSUME review'.status \in ActiveReview, stranded' = "no"
               PROVE  \E p \in Posts : WillEnd(p)'
    BY <1>1 DEF SomeoneEndsIt
  <2>1. CASE to \in {"dispatched", "picked", "engine"} \/ (to \in {"texts", "finishing"} /\ held # "complete")
    BY <1>1, <2>1 DEF WillEnd
  <2>2. CASE review.status \in ActiveReview /\ ~WillEnd(q)
    <3>1. PICK p \in Posts : WillEnd(p)
      BY <1>1, <2>2 DEF SomeoneEndsIt
    <3> QED BY <1>1, <2>2, <3>1 DEF WillEnd
  <2> QED BY <2>1, <2>2
<1>7. ~raced' => InTurn'
  <2> SUFFICES ASSUME ~raced' PROVE InTurn'
    OBVIOUS
  <2>1. ~raced /\ InTurn
    BY <1>1
  <2>2. review.status \notin {"none", "failed", "complete"} /\ \A p \in Alive : p = q
    BY <1>2, <2>1 DEF InTurn
  <2>3. \A p \in Posts : post'[p] \notin {"insert", "requeue", "retry"}
    BY <1>1, <2>1, <2>2 DEF InTurn
  <2>4. AboutToWrite' = {}
    BY <2>3 DEF AboutToWrite
  <2>5. \A p \in Posts \ {q} : worker'[p].pc = "off"
    BY <1>1, <2>2 DEF Alive
  <2>6. Alive' = IF to = "off" THEN {} ELSE {q}
    BY <1>1, <2>5 DEF Alive
  <2>7. review'.status \in {"none", "failed", "complete"} => to = "off"
    BY <2>1 DEF ActiveReview
  <2> QED BY <1>1, <2>1, <2>3, <2>4, <2>5, <2>6, <2>7 DEF InTurn
<1> QED BY <1>3, <1>4, <1>5, <1>6, <1>7

\* The status is written unless the worker holds it already.
LEMMA StatusWritten ==
    ASSUME ReviewTypeOK, NEW q \in Posts, NEW s \in Statuses, review' = SetStatus(q, s)
    PROVE  /\ review' \in Reviews /\ review'.engine = review.engine
           /\ review'.outcome = review.outcome
           /\ IF worker[q].held = s THEN review' = review ELSE review'.status = s
BY DEF ReviewTypeOK, SetStatus, Reviews

LEMMA WorkOK ==
    ASSUME ReviewInv, NEW q \in Posts, ReviewWork(q) \/ EngineFails(q) \/ WorkerRaises(q)
    PROVE  ReviewInv'
<1>1. /\ ReviewTypeOK /\ review \in Reviews /\ review.status \in Statuses
      /\ worker[q].held \in Statuses /\ worker[q].pc \in Stages
      /\ \A s \in {"none", "queued", "running", "engine_done", "failed", "complete"} : s \in Statuses
      /\ review.status \in {"engine_done", "complete"} => review.engine
      /\ stranded \in Strandings
  BY DEF ReviewInv, ReviewTypeOK, Reviews, Stages, Statuses, ActiveReview, Strandings
<1>2. worker[q].pc # "off" => review.status # "none"
  BY DEF ReviewInv, NothingBeforeRow, Alive
<1>3. /\ worker[q].pc \in {"texts", "finishing"} => review.engine
      /\ worker[q].pc = "engine" => worker[q].held = "running"
  BY DEF ReviewInv, ResultsStay
<1>4. ~raced /\ worker[q].pc # "off" =>
         /\ review.status \in ActiveReview
         /\ worker[q].pc # "dispatched" => worker[q].held = review.status
         /\ worker[q].pc \in {"picked", "engine"} => ~review.engine
  BY <1>1 DEF ReviewInv, InTurn, Alive, Statuses
<1>5. ASSUME PickUpReview(q) PROVE ReviewInv'
  <2> DEFINE to == IF review.status = "failed" THEN "off" ELSE IF review.engine THEN "texts" ELSE "picked"
  <2>1. to \in Stages /\ StageStep(q, "dispatched", to, review.status) /\ UNCHANGED stranded /\ review' = review
    BY <1>5 DEF PickUpReview, Stages, Step
  <2>2. worker[q].pc = "dispatched"
    BY <2>1 DEF StageStep
  <2>3. to # "off" => review.status # "failed"
    OBVIOUS
  <2>4. to = "off" => review.status \notin ActiveReview
    BY DEF ActiveReview
  <2>5. to \in {"off", "texts", "picked"} /\ (to = "texts" => review.engine) /\ (to = "picked" => ~review.engine)
    BY <1>1
  <2> HIDE DEF to
  <2> QED BY <1>1, <1>2, <1>4, <2>1, <2>2, <2>4, <2>5, WorkerStepOK DEF ActiveReview, Stages
<1>6. ASSUME StartEngine(q) PROVE ReviewInv'
  <2>1. StageStep(q, "picked", "engine", "running") /\ UNCHANGED stranded /\ review' = SetStatus(q, "running") /\ worker[q].pc = "picked"
    BY <1>6 DEF StartEngine, Step, StageStep
  <2>2. /\ review' \in Reviews /\ review'.engine = review.engine
        /\ IF worker[q].held = "running" THEN review' = review ELSE review'.status = "running"
    BY <1>1, <2>1, StatusWritten
  <2> QED BY <1>1, <1>2, <1>4, <2>1, <2>2, WorkerStepOK DEF ActiveReview, Stages
<1>7. ASSUME EngineDone(q) PROVE ReviewInv'
  <2>1. StageStep(q, "engine", "texts", "engine_done") /\ UNCHANGED stranded /\ worker[q].pc = "engine"
        /\ review' = [review EXCEPT !.status = "engine_done", !.engine = TRUE]
    BY <1>7 DEF EngineDone, Step, StageStep
  <2>2. review' \in Reviews /\ review'.status = "engine_done" /\ review'.engine
    BY <1>1, <2>1 DEF Reviews
  <2> QED BY <1>1, <2>1, <2>2, WorkerStepOK DEF ActiveReview, Stages
<1>8. ASSUME EngineFails(q) PROVE ReviewInv'
  <2>1. StageStep(q, "engine", "off", "failed") /\ UNCHANGED stranded /\ review' = SetStatus(q, "failed") /\ worker[q].pc = "engine"
    BY <1>8 DEF EngineFails, Step, StageStep
  <2>2. review' \in Reviews /\ review'.engine = review.engine /\ review'.status = "failed"
    BY <1>1, <1>3, <2>1, StatusWritten
  <2> QED BY <1>1, <2>1, <2>2, WorkerStepOK DEF ActiveReview, Stages
<1>9. ASSUME NEW o \in Outcomes, WriteTexts(q, o) PROVE ReviewInv'
  <2>1. StageStep(q, "texts", "finishing", worker[q].held) /\ UNCHANGED stranded /\ worker[q].pc = "texts"
        /\ review' = [review EXCEPT !.outcome = o]
    BY <1>9 DEF WriteTexts, Step, StageStep
  <2>2. review' \in Reviews /\ review'.status = review.status /\ review'.engine = review.engine
    BY <1>1, <2>1 DEF Reviews
  <2>3. worker[q].held # "complete" \/ ~WillEnd(q)
    BY <2>1 DEF WillEnd
  <2> QED BY <1>1, <1>2, <1>3, <1>4, <2>1, <2>2, <2>3, WorkerStepOK DEF Stages
<1>10. ASSUME WorkerRaises(q) PROVE ReviewInv'
  <2>1. PICK pc \in {"dispatched", "picked", "engine", "texts", "finishing"} :
            StageStep(q, pc, "off", "failed")
    BY <1>10 DEF WorkerRaises
  <2>2. worker[q].pc = pc
    BY <2>1 DEF StageStep
  <2>3. CASE review' = review
    <3>1. stranded' \in Strandings /\ (stranded' = "no" => stranded = "no")
          /\ (review.status \in ActiveReview => stranded' # "no")
      BY <1>1, <1>10, <2>3 DEF WorkerRaises, Strandings, Reviews, ActiveReview
    <3> QED BY <1>1, <1>2, <2>1, <2>2, <2>3, <3>1, WorkerStepOK DEF Stages
  <2>4. CASE review' # review
    <3>1. /\ review' \in Reviews /\ review'.engine = review.engine /\ review'.status = "failed"
          /\ UNCHANGED stranded
      BY <1>1, <1>10, <2>4 DEF WorkerRaises, Reviews
    <3> QED BY <1>1, <2>1, <2>2, <3>1, WorkerStepOK DEF ActiveReview, Stages
  <2> QED BY <2>3, <2>4
<1>11. ASSUME CompleteReview(q) PROVE ReviewInv'
  <2>1. StageStep(q, "finishing", "off", "complete") /\ UNCHANGED stranded /\ review' = SetStatus(q, "complete") /\ worker[q].pc = "finishing"
    BY <1>11 DEF CompleteReview, Step, StageStep
  <2>2. /\ review' \in Reviews /\ review'.engine = review.engine
        /\ IF worker[q].held = "complete" THEN review' = review ELSE review'.status = "complete"
    BY <1>1, <2>1, StatusWritten
  <2>3. worker[q].held = "complete" => ~WillEnd(q)
    BY <2>1 DEF WillEnd
  <2> QED BY <1>1, <1>2, <1>3, <2>1, <2>2, <2>3, WorkerStepOK DEF ActiveReview, Stages
<1> QED BY <1>5, <1>6, <1>7, <1>8, <1>9, <1>10, <1>11 DEF ReviewWork

LEMMA ProcessOK ==
    ASSUME ReviewInv, Halt \/ Reboot \/ QuotaChanges
    PROVE  ReviewInv'
<1> USE DEF ReviewInv
<1>1. ASSUME Halt PROVE ReviewInv'
  <2>1. ~serving' /\ worker' = [q \in Posts |-> Off] /\ UNCHANGED <<review, blocked, raced, stranded>>
        /\ halts' = halts + 1 /\ halts < MaxReviewStops
        /\ post' = [q \in Posts |-> IF q \in AboutToWrite THEN "answered" ELSE post[q]]
    BY <1>1 DEF Halt
  <2>2. \A q \in Posts : worker'[q] = Off /\ worker'[q].pc = "off"
    BY <2>1 DEF Off
  <2>3. \A q \in Posts : post'[q] \notin {"insert", "requeue", "retry"}
    BY <2>1 DEF AboutToWrite
  <2>4. Alive' = {} /\ AboutToWrite' = {}
    BY <2>2, <2>3 DEF Alive, AboutToWrite
  <2>5. ReviewTypeOK'
    <3>1. halts' \in 0..MaxReviewStops
      BY <2>1, GameReviewAssumption DEF ReviewTypeOK
    <3>2. worker' \in [Posts -> Workers]
      BY <2>1, ReviewRecords
    <3>3. post' \in [Posts -> {"unsent", "insert", "requeue", "retry", "answered"}]
      BY <2>1 DEF ReviewTypeOK
    <3>4. review' \in Reviews /\ blocked' \in BOOLEAN /\ raced' \in BOOLEAN
          /\ (review'.status \in {"engine_done", "complete"} => review'.engine)
          /\ stranded' \in Strandings
      BY <2>1 DEF ReviewTypeOK, Reviews, Strandings
    <3>5. serving' \in BOOLEAN
      BY <1>1 DEF Halt
    <3> QED BY <3>1, <3>2, <3>3, <3>4, <3>5 DEF ReviewTypeOK, Workers, Reviews, Strandings
  <2> HIDE DEF ReviewInv
  <2>6. ReviewInv /\ NothingBeforeRow
    BY DEF ReviewInv
  <2> QED BY <2>1, <2>2, <2>3, <2>4, <2>5, <2>6
          DEF ReviewInv, NothingRunsDown, NothingBeforeRow, ResultsStay, SomeoneEndsIt, InTurn
<1>2. ASSUME Reboot PROVE ReviewInv'
  <2>1. /\ ~serving /\ serving' /\ UNCHANGED <<halts, blocked, post, worker, raced>>
        /\ stranded' \in Strandings
        /\ \/ review' = Swept
           \/ review' = review /\ (review.status \in ActiveReview => stranded' # "no")
    BY <1>2 DEF Reboot, Strandings
  <2>2. Alive = {} /\ AboutToWrite = {}
    BY <2>1 DEF NothingRunsDown
  <2>3. \A q \in Posts : worker'[q].pc = "off" /\ post'[q] \notin {"insert", "requeue", "retry"}
    BY <2>1, <2>2 DEF Alive, AboutToWrite
  <2>4. Alive' = {} /\ AboutToWrite' = {}
    BY <2>3 DEF Alive, AboutToWrite
  <2>5. /\ review' \in Reviews /\ review'.engine = review.engine
        /\ review'.status \in {"engine_done", "complete"} => review.engine
        /\ review'.status \in ActiveReview => stranded' # "no"
        /\ review'.status = "none" => review' = review
    <3>1. review \in Reviews
          /\ review.status \in {"none", "queued", "running", "engine_done", "failed", "complete"}
          /\ (review.status \in {"engine_done", "complete"} => review.engine)
      BY DEF ReviewTypeOK, Reviews, Statuses, ActiveReview
    <3>5. CASE review' = review /\ (review.status \in ActiveReview => stranded' # "no")
      BY <3>1, <3>5
    <3>2. CASE review' = Swept /\ review.status \in {"queued", "running"}
      <4>1. review' = [review EXCEPT !.status = "failed"]
        BY <2>1, <3>2 DEF Swept
      <4> QED BY <3>1, <4>1 DEF Reviews, Statuses, ActiveReview
    <3>3. CASE review' = Swept /\ review.status = "engine_done"
      <4>1. review' = [review EXCEPT !.status = "complete", !.outcome = "fallback"]
        BY <2>1, <3>3 DEF Swept
      <4>2. review' \in Reviews
        BY <3>1, <4>1, ZenonT(60) DEF Reviews, Statuses, Outcomes
      <4>3. review'.status = "complete" /\ review'.engine = review.engine
        BY <3>1, <4>1 DEF Reviews
      <4> QED BY <3>1, <3>3, <4>2, <4>3 DEF ActiveReview
    <3>4. CASE review' = Swept /\ review.status \in {"none", "failed", "complete"}
      <4>1. review' = review
        BY <2>1, <3>4 DEF Swept
      <4> QED BY <3>1, <3>4, <4>1 DEF ActiveReview
    <3> QED BY <2>1, <3>1, <3>2, <3>3, <3>4, <3>5
  <2>6. ReviewTypeOK'
    BY <2>1, <2>5 DEF ReviewTypeOK, Reviews, Strandings
  <2>7. NothingBeforeRow'
    BY <2>1, <2>3, <2>4, <2>5 DEF NothingBeforeRow
  <2> QED BY <2>1, <2>3, <2>4, <2>5, <2>6, <2>7
          DEF NothingRunsDown, ResultsStay, SomeoneEndsIt, InTurn, ActiveReview
<1>3. ASSUME QuotaChanges PROVE ReviewInv'
  <2>1. blocked' \in BOOLEAN /\ UNCHANGED <<serving, halts, review, post, worker, raced, stranded>>
    BY <1>3 DEF QuotaChanges
  <2>2. Alive' = Alive /\ AboutToWrite' = AboutToWrite
    BY <2>1 DEF Alive, AboutToWrite
  <2>3. ReviewTypeOK'
    BY <2>1 DEF ReviewTypeOK
  <2> QED BY <2>1, <2>2, <2>3
          DEF NothingRunsDown, NothingBeforeRow, ResultsStay, SomeoneEndsIt, WillEnd, InTurn
<1> QED BY <1>1, <1>2, <1>3

\* The inductive invariant of the review job.
THEOREM ReviewInvariance == ReviewSpec => []ReviewInv
<1>1. ReviewInv /\ [ReviewNext]_reviewVars => ReviewInv'
  <2> SUFFICES ASSUME ReviewInv, [ReviewNext]_reviewVars PROVE ReviewInv'
    OBVIOUS
  <2>1. ASSUME NEW q \in Posts, ReadReview(q) \/ InsertReview(q) \/ Requeue(q) PROVE ReviewInv'
    BY <2>1, ReadReviewOK, InsertReviewOK, RequeueOK
  <2>2. ASSUME UNCHANGED reviewVars PROVE ReviewInv'
    <3>1. Alive' = Alive /\ AboutToWrite' = AboutToWrite
      BY <2>2 DEF reviewVars, Alive, AboutToWrite
    <3>2. ReviewTypeOK'
      BY <2>2 DEF ReviewInv, ReviewTypeOK, reviewVars
    <3> QED BY <2>2, <3>1, <3>2
            DEF ReviewInv, reviewVars, NothingRunsDown, NothingBeforeRow, ResultsStay, SomeoneEndsIt,
                WillEnd, InTurn
  <2> QED BY <2>1, <2>2, WorkOK, ProcessOK DEF ReviewNext
<1> QED BY <1>1, ReviewStarts, PTL DEF ReviewSpec

\* GameReview.ReviewSafe: an active row has a worker, unless the database was away
\* when its end was to be written; requests that do not overlap never give it two,
\* and a retry leaves the engine results alone.
THEOREM ReviewIsSafe == ReviewSpec => []ReviewSafe
<1>1. ReviewInv => ReviewSafe
  <2> SUFFICES ASSUME ReviewInv PROVE ReviewSafe
    OBVIOUS
  <2> USE DEF ReviewInv
  <2>1. ActiveReviewWorkedOn
    BY DEF SomeoneEndsIt, WillEnd, ActiveReviewWorkedOn, Alive
  <2>2. OneWorker
    <3> SUFFICES ASSUME ~raced PROVE Cardinality(Alive) <= 1
      BY DEF OneWorker
    <3>1. \A p, q \in Alive : p = q
      BY DEF InTurn
    <3>2. CASE Alive = {}
      BY <3>2, FS_EmptySet
    <3>3. CASE \E q : Alive = {q}
      BY <3>3, FS_Singleton
    <3> QED BY <3>1, <3>2, <3>3
  <2>3. RetriesSkipEngine
    BY DEF RetriesSkipEngine, InTurn
  <2> QED BY <2>1, <2>2, <2>3 DEF ReviewSafe
<1> QED BY <1>1, ReviewInvariance, PTL

\* GameReview.FullReviewKept: nothing changes a review that is complete with all
\* its texts, as long as no two requests have overlapped.
THEOREM FullReviewStays == ReviewSpec => FullReviewKept
<1>1. ReviewInv /\ [ReviewNext]_reviewVars =>
         [~raced' /\ review.status = "complete" /\ review.outcome = "full" => review' = review]_reviewVars
  <2> SUFFICES ASSUME ReviewInv, ReviewNext, ~raced', review.status = "complete", review.outcome = "full"
               PROVE  review' = review
    OBVIOUS
  <2>1. ~raced
    BY DEF ReviewNext, Halt, Reboot, QuotaChanges, ReadReview, InsertReview, Requeue, ReviewWork,
           PickUpReview, StartEngine, EngineDone, WriteTexts, CompleteReview, EngineFails, WorkerRaises,
           Step, StageStep
  <2>2. \A q \in Posts : worker[q].pc = "off" /\ post[q] \notin {"requeue", "retry"}
    BY <2>1 DEF ReviewInv, InTurn, Alive
  <2>3. ASSUME NEW q \in Posts PROVE ~(ReviewWork(q) \/ EngineFails(q) \/ WorkerRaises(q))
    BY <2>2, <2>3 DEF ReviewWork, PickUpReview, StartEngine, EngineDone, WriteTexts, CompleteReview,
                      EngineFails, WorkerRaises, Step, StageStep
  <2>4. ASSUME NEW q \in Posts, ReadReview(q) \/ InsertReview(q) \/ Requeue(q) PROVE review' = review
    BY <2>2, <2>4 DEF ReadReview, InsertReview, Requeue
  <2>5. ASSUME Halt \/ Reboot \/ QuotaChanges PROVE review' = review
    BY <2>5 DEF Halt, Reboot, QuotaChanges, Swept
  <2> QED BY <2>3, <2>4, <2>5 DEF ReviewNext
<1> QED BY <1>1, ReviewInvariance, PTL DEF ReviewSpec, FullReviewKept

-----------------------------------------------------------------------------
(* The import of a player's games (LichessImport) *)

\* What a run, a job and a link are.
Steps == {"unused", "queued", "starting", "opening", "streaming", "reconnecting", "resolving",
          "analyzing", "promoting", "marking", "alerting", "done"}
RunRecords == [pc : Steps, player : Players \union {NoOne}, held : LinkRows \union {NoLink},
               todo : SUBSET Nat, known : SUBSET DOMAIN Games, newest : Nat]
JobRecords == [status : {"none", "succeeded", "failed"} \union Active, duplicate : BOOLEAN]

ImportTypes ==
    /\ up \in BOOLEAN /\ stops \in 0..MaxStops /\ links \in 0..MaxLinks
    /\ link \in [Players -> LinkRows \union {NoLink}]
    /\ played \in Times /\ gone \subseteq Handles
    /\ owner \in [DOMAIN Games -> Players \union {NoOne}]
    /\ scored \subseteq {g \in DOMAIN Games : owner[g] # NoOne}
    /\ job \in [Runs -> JobRecords] /\ run \in [Runs -> RunRecords]
    /\ alert \subseteq Players /\ answering \subseteq Players /\ abandoned \subseteq Runs

\* A handle is linked once, and a link that is held has its id for itself.
LinksApart ==
    /\ \A p, q \in Players : link[p].handle = link[q].handle => p = q \/ link[p] = NoLink
    /\ \A p \in Players : link[p].id <= links
    /\ \A r \in Runs : run[r].held \in LinkRows =>
         /\ run[r].held.id <= links
         /\ link[run[r].player].id = run[r].held.id =>
              link[run[r].player].handle = run[r].held.handle

\* No usable game of the account is missing up to the row's watermark, when one
\* import takes all the games there are.
Covers(row, own) ==
    Len(Games) <= MaxGames =>
        \A g \in 1..row.watermark : row.handle \in Games[g] /\ g \notin Unusable => own[g] # NoOne

\* The watermark of a row is a game of its account that its player has.
OfOwnLink(p, row, own) ==
    row.watermark # 0 => row.handle \in Games[row.watermark] /\ own[row.watermark] = p

\* A game of the account between the held watermark and one that a stream has
\* still to see, or has inserted, is still to be seen, stored or unusable.
SeesAll(w, own) ==
    Len(Games) <= MaxGames =>
        \A y \in w.todo \union {w.newest} : \A x \in w.held.watermark + 1..y :
            w.held.handle \in Games[x] /\ x \notin Unusable => x \in w.todo \/ own[x] # NoOne

\* A run and its job, given the owners of the games and the games played.
Fits(w, j, own, n) ==
    /\ IF w.pc = "unused" THEN w = Blank /\ j.status = "none" ELSE w.player \in Players
    /\ w.pc \in {"queued", "starting", "analyzing", "promoting"} => j.status # "none"
    /\ w.pc \notin {"unused", "queued", "starting", "done"} => j.status # "queued"
    /\ w.pc \in {"marking", "alerting"} => j.status \notin Active
    /\ w.pc \in {"unused", "queued", "starting", "opening", "done"} => w.todo = {} /\ w.newest = 0
    /\ w.pc \notin {"unused", "queued", "done"} => w.held \in LinkRows
    /\ \A g \in w.known : own[g] # NoOne
    /\ \A g \in w.todo : g \in 1..n /\ w.held.handle \in Games[g]
    /\ w.newest # 0 => w.newest \in 1..n /\ w.held.handle \in Games[w.newest] /\ own[w.newest] = w.player
    /\ Covers(w.held, own)
    /\ w.pc = "streaming" => SeesAll(w, own)

OneEach ==
    \A r, s \in Runs : run[r].player = run[s].player
                       /\ job[r].status \in Active /\ job[s].status \in Active => r = s

ImportInv ==
    /\ ImportTypes /\ LinksApart /\ OneEach /\ ActiveJobsWorkedOn
    /\ \A p \in Players : Covers(link[p], owner) /\ OfOwnLink(p, link[p], owner)
    /\ \A r \in Runs : Fits(run[r], job[r], owner, played)

\* The places of a game and the records that the steps make.
LEMMA ImportRecords ==
    /\ DOMAIN Games = 1..Len(Games) /\ Len(Games) \in Nat /\ NoOne \notin Players
    /\ Blank \in RunRecords /\ Blank.pc = "unused" /\ Blank.player = NoOne /\ Blank.held = NoLink
    /\ Blank.todo = {} /\ Blank.known = {} /\ Blank.newest = 0
    /\ NoLink.id = 0 /\ NoLink.handle = NoOne /\ NoLink.watermark = 0 /\ NoLink \notin LinkRows
    /\ \A row \in LinkRows \union {NoLink} :
         row.id \in Nat /\ row.watermark \in Times /\ (row # NoLink => row \in LinkRows)
    /\ Failed \in JobRecords /\ Failed.status = "failed"
<1>1. DOMAIN Games = 1..Len(Games) /\ Len(Games) \in Nat
  BY LichessImportAssumption, LenProperties
<1>2. NoOne \notin Players
  BY LichessImportAssumption
<1>3. NoLink.id = 0 /\ NoLink.handle = NoOne /\ NoLink.watermark = 0
  BY DEF NoLink
<1>4. \A row \in LinkRows : row.id \in 1..MaxLinks /\ row.watermark \in Times
  BY DEF LinkRows
<1>5. NoLink \notin LinkRows
  BY <1>3, <1>4, LichessImportAssumption
<1>6. 0 \in Times
  BY <1>1 DEF Times
<1>7. \A row \in LinkRows \union {NoLink} :
        row.id \in Nat /\ row.watermark \in Times /\ (row # NoLink => row \in LinkRows)
  BY <1>3, <1>4, <1>6, LichessImportAssumption
<1>8. Blank.pc = "unused" /\ Blank.player = NoOne /\ Blank.held = NoLink
      /\ Blank.todo = {} /\ Blank.known = {} /\ Blank.newest = 0
  BY DEF Blank
<1>9. Blank \in RunRecords
  BY DEF Blank, RunRecords, Steps
<1>10. Failed \in JobRecords /\ Failed.status = "failed"
  BY DEF Failed, JobRecords
<1> QED BY <1>1, <1>2, <1>3, <1>5, <1>7, <1>8, <1>9, <1>10

\* A run that ends.
LEMMA LastStep ==
    ASSUME NEW w \in RunRecords
    PROVE  /\ Finished(w) \in RunRecords /\ Finished(w).pc = "done"
           /\ Finished(w).player = w.player /\ Finished(w).held = NoLink
           /\ Finished(w).todo = {} /\ Finished(w).known = {} /\ Finished(w).newest = 0
<1>1. "done" \in Steps /\ w.player \in Players \union {NoOne}
  BY DEF Steps, RunRecords
<1>2. /\ Finished(w) \in RunRecords /\ Finished(w).pc = "done"
      /\ Finished(w).player = w.player /\ Finished(w).held = Blank.held
      /\ Finished(w).todo = Blank.todo /\ Finished(w).known = Blank.known
      /\ Finished(w).newest = Blank.newest
  BY <1>1, ImportRecords DEF Finished, RunRecords
<1> HIDE DEF Finished
<1> QED BY <1>2, ImportRecords

\* Owners are only ever added.
Grows(own, later) ==
    /\ own \in [DOMAIN Games -> Players \union {NoOne}]
    /\ later \in [DOMAIN Games -> Players \union {NoOne}]
    /\ \A g \in DOMAIN Games : own[g] # NoOne => later[g] = own[g]

LEMMA CoverGrows ==
    ASSUME NEW own, NEW later, Grows(own, later), NEW row \in LinkRows \union {NoLink}, Covers(row, own)
    PROVE  Covers(row, later)
<1>1. row.watermark \in 0..Len(Games) /\ DOMAIN Games = 1..Len(Games) /\ Len(Games) \in Nat
  BY ImportRecords DEF Times
<1>2. \A g \in 1..row.watermark : g \in DOMAIN Games
  BY <1>1
<1> QED BY <1>2 DEF Covers, Grows

LEMMA OwnGrows ==
    ASSUME NEW own, NEW later, Grows(own, later), NEW row \in LinkRows \union {NoLink},
           NEW p \in Players, OfOwnLink(p, row, own)
    PROVE  OfOwnLink(p, row, later)
<1>1. row.watermark \in 0..Len(Games) /\ DOMAIN Games = 1..Len(Games) /\ Len(Games) \in Nat
      /\ p # NoOne
  BY ImportRecords DEF Times
<1>2. row.watermark # 0 => row.watermark \in DOMAIN Games
  BY <1>1
<1> QED BY <1>1, <1>2 DEF OfOwnLink, Grows

LEMMA FitsGrows ==
    ASSUME NEW own, NEW later, Grows(own, later), NEW n \in Times, NEW m \in Times, n <= m,
           NEW w \in RunRecords, NEW j \in JobRecords, Fits(w, j, own, n)
    PROVE  Fits(w, j, later, m)
<1>1. DOMAIN Games = 1..Len(Games) /\ Len(Games) \in Nat /\ n \in 0..Len(Games) /\ m \in 0..Len(Games)
      /\ NoOne \notin Players /\ n \in Nat
  BY ImportRecords DEF Times
<1>2. w.held \in LinkRows \union {NoLink} /\ w.held.watermark \in 0..Len(Games)
      /\ w.known \subseteq DOMAIN Games /\ w.newest \in Nat /\ w.todo \subseteq Nat
  BY ImportRecords DEF RunRecords, Times
<1>3. Covers(w.held, later)
  BY <1>2, CoverGrows DEF Fits
<1>4. \A g \in w.known : later[g] # NoOne
  BY <1>2 DEF Fits, Grows
<1>5. \A g \in w.todo : g \in 1..m /\ w.held.handle \in Games[g]
  <2>1. \A g \in w.todo : g \in 1..n /\ w.held.handle \in Games[g]
    BY DEF Fits
  <2> QED BY <1>1, <2>1
<1>6. w.newest # 0 => w.newest \in 1..m /\ w.held.handle \in Games[w.newest]
                      /\ later[w.newest] = w.player
  <2> SUFFICES ASSUME w.newest # 0
               PROVE w.newest \in 1..m /\ w.held.handle \in Games[w.newest]
                     /\ later[w.newest] = w.player
    OBVIOUS
  <2>1. w.newest \in 1..n /\ w.held.handle \in Games[w.newest] /\ own[w.newest] = w.player
    BY DEF Fits
  <2>2. w.pc # "unused"
    BY ImportRecords DEF Fits
  <2>3. w.player \in Players
    BY <2>2 DEF Fits
  <2>4. w.newest \in 1..m /\ w.newest \in DOMAIN Games
    BY <1>1, <2>1
  <2> QED BY <1>1, <2>1, <2>3, <2>4 DEF Grows
<1>7. ASSUME SeesAll(w, own) PROVE SeesAll(w, later)
  <2>1. \A y \in w.todo \union {w.newest} : y \in 0..n
    BY <1>1 DEF Fits
  <2>2. \A y \in w.todo \union {w.newest} : \A x \in w.held.watermark + 1..y : x \in DOMAIN Games
    BY <1>1, <1>2, <2>1
  <2> QED BY <1>7, <2>2 DEF SeesAll, Grows
<1> QED BY <1>3, <1>4, <1>5, <1>6, <1>7 DEF Fits

\* The links keep their ids and accounts, and their watermarks are covered.
LinksKept ==
    /\ link' \in [Players -> LinkRows \union {NoLink}]
    /\ \A p \in Players :
         /\ link'[p].id = link[p].id /\ link'[p].handle = link[p].handle
         /\ link'[p] # NoLink => link[p] # NoLink
         /\ Covers(link'[p], owner') /\ OfOwnLink(p, link'[p], owner')

LEMMA LinksUnchanged ==
    ASSUME ImportInv, Grows(owner, owner'), link' = link PROVE LinksKept
<1>1. link \in [Players -> LinkRows \union {NoLink}]
      /\ \A p \in Players : Covers(link[p], owner) /\ OfOwnLink(p, link[p], owner)
  BY DEF ImportInv, ImportTypes
<1>2. \A p \in Players : Covers(link[p], owner')
  BY <1>1, CoverGrows
<1>3. \A p \in Players : OfOwnLink(p, link[p], owner')
  BY <1>1, OwnGrows
<1> QED BY <1>1, <1>2, <1>3 DEF LinksKept

LEMMA OwnersUnchanged == ASSUME ImportInv, owner' = owner PROVE Grows(owner, owner')
BY DEF ImportInv, ImportTypes, Grows

\* A step of a run, that changes its own record and job, and keeps the links; a run
\* that leaves its job active is abandoned.
LEMMA RunStepOrEnd ==
    ASSUME ImportInv, NEW r \in Runs, run[r].pc # "unused",
           NEW w \in RunRecords, NEW j \in JobRecords,
           run' = [run EXCEPT ![r] = w], job' = [job EXCEPT ![r] = j],
           w.player = run[r].player, w.held \in {run[r].held, link[w.player], NoLink},
           j.status \in Active =>
              /\ w.pc \notin Resting \/ r \in abandoned'
              /\ job[r].status \in Active \/ IndexAdmits(r),
           Grows(owner, owner'), LinksKept, UNCHANGED <<up, stops, links, played, gone, answering>>,
           abandoned \subseteq abandoned', abandoned' \subseteq Runs,
           scored' \subseteq {g \in DOMAIN Games : owner'[g] # NoOne}, alert' \subseteq Players,
           Fits(w, j, owner', played)
    PROVE  ImportInv'
<1>1. /\ ImportTypes /\ LinksApart /\ OneEach /\ ActiveJobsWorkedOn
      /\ \A s \in Runs : Fits(run[s], job[s], owner, played)
  BY DEF ImportInv
<1>2. /\ run \in [Runs -> RunRecords] /\ job \in [Runs -> JobRecords]
      /\ link \in [Players -> LinkRows \union {NoLink}] /\ played \in Times /\ links \in Nat
  BY <1>1, LichessImportAssumption DEF ImportTypes
<1>3. w.player \in Players /\ w.player # NoOne
  BY <1>1, ImportRecords DEF Fits
<1>4. /\ up' = up /\ stops' = stops /\ links' = links /\ played' = played /\ gone' = gone
      /\ answering' = answering
  OBVIOUS
<1>5. ImportTypes'
  <2>1. run' \in [Runs -> RunRecords] /\ job' \in [Runs -> JobRecords]
    BY <1>2
  <2>2. link' \in [Players -> LinkRows \union {NoLink}]
    BY DEF LinksKept
  <2>3. owner' \in [DOMAIN Games -> Players \union {NoOne}]
    BY DEF Grows
  <2> QED BY <1>1, <1>4, <2>1, <2>2, <2>3 DEF ImportTypes
<1>6. LinksApart'
  <2>1. \A p, q \in Players : link'[p].handle = link'[q].handle => p = q \/ link'[p] = NoLink
    BY <1>1 DEF LinksApart, LinksKept
  <2>2. \A p \in Players : link'[p].id <= links'
    BY <1>1, <1>4 DEF LinksApart, LinksKept
  <2>3. ASSUME NEW s \in Runs, run'[s].held \in LinkRows
        PROVE /\ run'[s].held.id <= links'
              /\ link'[run'[s].player].id = run'[s].held.id =>
                    link'[run'[s].player].handle = run'[s].held.handle
    <3>1. CASE run'[s].held = run[s].held
      <4>1. run'[s].player = run[s].player
        BY <1>2
      <4>2. run[s].held \in LinkRows
        BY <2>3, <3>1
      <4>3. run[s].held.id <= links
            /\ (link[run[s].player].id = run[s].held.id =>
                  link[run[s].player].handle = run[s].held.handle)
        BY <1>1, <4>2 DEF LinksApart
      <4>4. run[s].player \in Players
        <5>1. run[s].pc # "unused"
          BY <1>1, <4>2, ImportRecords DEF Fits
        <5> QED BY <1>1, <5>1 DEF Fits
      <4> QED BY <1>4, <3>1, <4>1, <4>3, <4>4 DEF LinksKept
    <3>2. CASE run'[s].held # run[s].held
      <4>1. s = r /\ run'[s] = w
        BY <1>2, <3>2
      <4>2. w.held = link[w.player]
        BY <2>3, <3>2, <4>1, ImportRecords
      <4>3. link[w.player].id <= links
        BY <1>1, <1>3 DEF LinksApart
      <4> QED BY <1>3, <1>4, <4>1, <4>2, <4>3 DEF LinksKept
    <3> QED BY <3>1, <3>2
  <2> QED BY <2>1, <2>2, <2>3 DEF LinksApart
<1>7. OneEach'
  <2> SUFFICES ASSUME NEW a \in Runs, NEW b \in Runs, run'[a].player = run'[b].player,
                      job'[a].status \in Active, job'[b].status \in Active
               PROVE a = b
    BY DEF OneEach
  <2>1. \A s \in Runs : run'[s].player = run[s].player
    BY <1>2
  <2>2. \A s \in Runs : s # r => job'[s] = job[s]
    BY <1>2
  <2>3. job'[r] = j
    BY <1>2
  <2>4. run[a].player = run[b].player
    BY <2>1
  <2>5. CASE a # r /\ b # r
    BY <1>1, <2>2, <2>4, <2>5 DEF OneEach
  <2>6. CASE a = r /\ b # r
    <3>1. job[b].status \in Active /\ j.status \in Active
      BY <2>2, <2>3, <2>6
    <3>2. CASE job[r].status \in Active
      BY <1>1, <2>4, <2>6, <3>1, <3>2 DEF OneEach
    <3>3. CASE IndexAdmits(r)
      BY <2>4, <2>6, <3>1, <3>3 DEF IndexAdmits, ActiveJobs
    <3> QED BY <3>1, <3>2, <3>3
  <2>7. CASE a # r /\ b = r
    <3>1. job[a].status \in Active /\ j.status \in Active
      BY <2>2, <2>3, <2>7
    <3>2. CASE job[r].status \in Active
      BY <1>1, <2>4, <2>7, <3>1, <3>2 DEF OneEach
    <3>3. CASE IndexAdmits(r)
      BY <2>4, <2>7, <3>1, <3>3 DEF IndexAdmits, ActiveJobs
    <3> QED BY <3>1, <3>2, <3>3
  <2> QED BY <2>5, <2>6, <2>7
<1>8. ActiveJobsWorkedOn'
  BY <1>1, <1>2, <1>4 DEF ActiveJobsWorkedOn
<1>9. \A p \in Players : Covers(link'[p], owner') /\ OfOwnLink(p, link'[p], owner')
  BY DEF LinksKept
<1>10. ASSUME NEW s \in Runs PROVE Fits(run'[s], job'[s], owner', played')
  <2>1. CASE s = r
    BY <1>2, <1>4, <2>1
  <2>2. CASE s # r
    <3>1. run'[s] = run[s] /\ job'[s] = job[s] /\ run[s] \in RunRecords /\ job[s] \in JobRecords
      BY <1>2, <2>2
    <3>2. played <= played
      BY <1>2, ImportRecords DEF Times
    <3>3. Fits(run[s], job[s], owner', played)
      BY <1>1, <1>2, <3>1, <3>2, FitsGrows
    <3> QED BY <1>4, <3>1, <3>3
  <2> QED BY <2>1, <2>2
<1> QED BY <1>5, <1>6, <1>7, <1>8, <1>9, <1>10 DEF ImportInv, Covers, OfOwnLink, Fits, SeesAll

LEMMA RunStep ==
    ASSUME ImportInv, NEW r \in Runs, run[r].pc # "unused",
           NEW w \in RunRecords, NEW j \in JobRecords,
           run' = [run EXCEPT ![r] = w], job' = [job EXCEPT ![r] = j],
           w.player = run[r].player, w.held \in {run[r].held, link[w.player], NoLink},
           j.status \in Active =>
              w.pc \notin Resting /\ (job[r].status \in Active \/ IndexAdmits(r)),
           Grows(owner, owner'), LinksKept, UNCHANGED rest,
           scored' \subseteq {g \in DOMAIN Games : owner'[g] # NoOne}, alert' \subseteq Players,
           Fits(w, j, owner', played)
    PROVE  ImportInv'
<1>1. /\ UNCHANGED <<up, stops, links, played, gone, answering>>
      /\ abandoned \subseteq abandoned' /\ abandoned' \subseteq Runs
  BY DEF rest, ImportInv, ImportTypes
<1> QED BY <1>1, RunStepOrEnd

\* A run that ends fits any job, and a run past its stream one that is under way.
LEMMA FinishedFits ==
    ASSUME NEW w \in RunRecords, w.player \in Players, NEW j, NEW own, NEW n
    PROVE  Fits(Finished(w), j, own, n)
<1> DEFINE v == Finished(w)
<1>1. v.pc = "done" /\ v.player \in Players /\ v.held = NoLink /\ v.todo = {} /\ v.known = {}
      /\ v.newest = 0
  BY LastStep
<1> HIDE DEF v
<1>2. Covers(v.held, own)
  BY <1>1, ImportRecords DEF Covers
<1>3. Fits(v, j, own, n)
  BY <1>1, <1>2 DEF Fits
<1> QED BY <1>3 DEF v

LEMMA GoesOnFits ==
    ASSUME NEW w \in RunRecords, NEW j, NEW own, NEW n, Fits(w, j, own, n),
           w.pc \notin {"unused", "queued", "done"},
           NEW pc \in {"reconnecting", "resolving", "analyzing", "promoting", "marking", "alerting"},
           NEW k \in JobRecords, k.status # "queued",
           pc \in {"analyzing", "promoting"} => k.status # "none",
           pc \in {"marking", "alerting"} => k.status \notin Active
    PROVE  Fits([w EXCEPT !.pc = pc, !.known = {}], k, own, n)
<1> DEFINE v == [w EXCEPT !.pc = pc, !.known = {}]
<1>1. pc \in Steps
  BY DEF Steps
<1>2. v.pc = pc /\ v.player = w.player /\ v.held = w.held /\ v.todo = w.todo /\ v.known = {}
      /\ v.newest = w.newest
  BY <1>1 DEF RunRecords
<1> HIDE DEF v
<1>3. Fits(v, k, own, n)
  BY <1>2 DEF Fits
<1> QED BY <1>3 DEF v

\* What the invariant says of one run.
LEMMA OfRun ==
    ASSUME ImportInv, NEW r \in Runs
    PROVE  /\ run \in [Runs -> RunRecords] /\ job \in [Runs -> JobRecords]
           /\ run[r] \in RunRecords /\ job[r] \in JobRecords
           /\ Fits(run[r], job[r], owner, played)
           /\ run[r].pc # "unused" => run[r].player \in Players /\ run[r].player # NoOne
                                      /\ link[run[r].player] \in LinkRows \union {NoLink}
           /\ scored \subseteq {g \in DOMAIN Games : owner[g] # NoOne} /\ alert \subseteq Players
BY ImportRecords DEF ImportInv, ImportTypes, Fits

\* A run that ends with a job that has ended.
LEMMA EndStep ==
    ASSUME ImportInv, NEW r \in Runs, run[r].pc # "unused", GoTo(r, "done"),
           NEW j \in JobRecords, j.status \notin Active, job' = [job EXCEPT ![r] = j],
           Grows(owner, owner'), LinksKept, UNCHANGED rest,
           scored' \subseteq {g \in DOMAIN Games : owner'[g] # NoOne}, alert' \subseteq Players
    PROVE  ImportInv'
<1> DEFINE w == Finished(run[r])
<1>1. run[r] \in RunRecords /\ run[r].player \in Players
  BY OfRun
<1>2. w \in RunRecords /\ w.player = run[r].player /\ w.held = NoLink
  BY <1>1, LastStep
<1>3. run' = [run EXCEPT ![r] = w]
  BY DEF GoTo
<1>4. Fits(w, j, owner', played)
  BY <1>1, FinishedFits
<1> HIDE DEF w
<1> QED BY <1>2, <1>3, <1>4, RunStep

\* A run that goes on past its stream.
LEMMA GoOnStep ==
    ASSUME ImportInv, NEW r \in Runs, run[r].pc \notin {"unused", "queued", "done"},
           NEW pc \in {"reconnecting", "resolving", "analyzing", "promoting", "marking", "alerting"},
           GoTo(r, pc), NEW j \in JobRecords, job' = [job EXCEPT ![r] = j],
           j.status # "queued", j.status \in Active => job[r].status \in Active,
           pc \in {"analyzing", "promoting"} => j.status # "none",
           pc \in {"marking", "alerting"} => j.status \notin Active,
           owner' = owner, LinksKept, UNCHANGED rest, scored' = scored, alert' \subseteq Players
    PROVE  ImportInv'
<1> DEFINE w == [run[r] EXCEPT !.pc = pc, !.known = {}]
<1>1. run[r] \in RunRecords /\ Fits(run[r], job[r], owner, played)
      /\ scored \subseteq {g \in DOMAIN Games : owner[g] # NoOne}
  BY OfRun
<1> pc \in Steps
  BY DEF Steps
<1>2. w \in RunRecords /\ w.player = run[r].player /\ w.held = run[r].held /\ w.pc = pc
  BY <1>1 DEF RunRecords
<1>3. run' = [run EXCEPT ![r] = w]
  BY DEF GoTo
<1>4. Fits(w, j, owner', played)
  BY <1>1, GoesOnFits
<1>5. Grows(owner, owner') /\ pc \notin Resting
  BY OwnersUnchanged DEF Resting
<1> HIDE DEF w
<1> QED BY <1>1, <1>2, <1>3, <1>4, <1>5, RunStep

\* The exception path.
LEMMA FailStep ==
    ASSUME ImportInv, NEW r \in Runs, run[r].pc \in {"opening", "streaming", "reconnecting"},
           NEW why, FailStream(r, why), UNCHANGED <<rest, link, owner, scored, alert>>
    PROVE  ImportInv'
<1> DEFINE failed == [Failed EXCEPT !.duplicate = (why = "duplicate")]
           j == IF job[r].status = "running" THEN failed ELSE job[r]
<1>1. /\ job \in [Runs -> JobRecords] /\ job[r] \in JobRecords
      /\ Fits(run[r], job[r], owner, played)
      /\ scored \subseteq {g \in DOMAIN Games : owner[g] # NoOne} /\ alert \subseteq Players
  BY OfRun
<1>2. (why = "duplicate") \in BOOLEAN
  OBVIOUS
<1>3. failed \in JobRecords /\ failed.status = "failed"
  BY <1>2, ImportRecords DEF JobRecords
<1>4. job' = [job EXCEPT ![r] = j]
  BY <1>1 DEF FailStream
<1>5. job[r].status # "queued"
  BY <1>1 DEF Fits
<1>6. j \in JobRecords /\ j.status \notin Active /\ j.status # "queued"
  BY <1>1, <1>3, <1>5 DEF Active, JobRecords
<1>7. Grows(owner, owner') /\ LinksKept
  BY OwnersUnchanged, LinksUnchanged
<1> HIDE DEF j, failed
<1>8. CASE why = "not_found"
  <2>1. GoTo(r, "marking")
    BY <1>8 DEF FailStream
  <2> QED BY <1>1, <1>4, <1>6, <1>7, <2>1, GoOnStep
<1>9. CASE why # "not_found"
  <2>1. GoTo(r, "done")
    BY <1>9 DEF FailStream
  <2> QED BY <1>1, <1>4, <1>6, <1>7, <2>1, EndStep
<1> QED BY <1>8, <1>9

LEMMA PickUpOK == ASSUME ImportInv, NEW r \in Runs, PickUp(r) PROVE ImportInv'
<1> DEFINE p == run[r].player
           w == [run[r] EXCEPT !.pc = "starting", !.held = link[p]]
<1>1. /\ run[r].pc = "queued"
      /\ IF job[r].status \notin Active THEN GoTo(r, "done") /\ UNCHANGED job
         ELSE IF link[p] = NoLink
         THEN GoTo(r, "done") /\ job' = [job EXCEPT ![r] = Failed]
         ELSE run' = [run EXCEPT ![r].pc = "starting", ![r].held = link[p]] /\ UNCHANGED job
      /\ UNCHANGED <<rest, link, owner, scored, alert>>
  BY DEF PickUp, At
<1>2. /\ run \in [Runs -> RunRecords] /\ job \in [Runs -> JobRecords]
      /\ run[r] \in RunRecords /\ job[r] \in JobRecords
      /\ Fits(run[r], job[r], owner, played) /\ p \in Players /\ link[p] \in LinkRows \union {NoLink}
      /\ scored \subseteq {g \in DOMAIN Games : owner[g] # NoOne} /\ alert \subseteq Players
  BY <1>1, OfRun
<1>3. Grows(owner, owner') /\ LinksKept
  BY <1>1, OwnersUnchanged, LinksUnchanged
<1>4. CASE job[r].status \notin Active
  <2>1. job' = [job EXCEPT ![r] = job[r]]
    BY <1>1, <1>2, <1>4
  <2> QED BY <1>1, <1>2, <1>3, <1>4, <2>1, EndStep
<1>5. CASE job[r].status \in Active /\ link[p] = NoLink
  <2>1. Failed \in JobRecords /\ Failed.status \notin Active
    BY ImportRecords DEF Active
  <2> QED BY <1>1, <1>2, <1>3, <1>5, <2>1, EndStep
<1>6. CASE job[r].status \in Active /\ link[p] # NoLink
  <2>1. link[p] \in LinkRows
    BY <1>2, <1>6
  <2>2. w \in RunRecords /\ w.pc = "starting" /\ w.player = p /\ w.held = link[p]
        /\ w.todo = run[r].todo /\ w.known = run[r].known /\ w.newest = run[r].newest
    BY <1>2, <2>1 DEF RunRecords, Steps
  <2>3. run' = [run EXCEPT ![r] = w] /\ job' = [job EXCEPT ![r] = job[r]]
    BY <1>1, <1>2, <1>6
  <2>4. Covers(link[p], owner)
    BY <1>2 DEF ImportInv
  <2> HIDE DEF w
  <2>5. Fits(w, job[r], owner', played)
    BY <1>1, <1>2, <1>6, <2>1, <2>2, <2>4 DEF Fits, Active
  <2>6. w.pc \notin Resting
    BY <2>2 DEF Resting
  <2> HIDE DEF p
  <2> QED BY <1>1, <1>2, <1>3, <2>2, <2>3, <2>5, <2>6, RunStep DEF p
<1> QED BY <1>4, <1>5, <1>6

LEMMA SetRunningOK == ASSUME ImportInv, NEW r \in Runs, SetRunning(r) PROVE ImportInv'
<1> DEFINE w == [run[r] EXCEPT !.pc = "opening", !.known = {}]
           j == [job[r] EXCEPT !.status = "running"]
<1>1. /\ run[r].pc = "starting"
      /\ IF IndexAdmits(r)
         THEN GoTo(r, "opening") /\ job' = [job EXCEPT ![r].status = "running"]
         ELSE GoTo(r, "done") /\ UNCHANGED job
      /\ UNCHANGED <<rest, link, owner, scored, alert>>
  BY DEF SetRunning, At
<1>2. /\ run \in [Runs -> RunRecords] /\ job \in [Runs -> JobRecords]
      /\ run[r] \in RunRecords /\ job[r] \in JobRecords
      /\ Fits(run[r], job[r], owner, played)
      /\ scored \subseteq {g \in DOMAIN Games : owner[g] # NoOne} /\ alert \subseteq Players
  BY <1>1, OfRun
<1>3. Grows(owner, owner') /\ LinksKept
  BY <1>1, OwnersUnchanged, LinksUnchanged
<1>4. CASE ~IndexAdmits(r)
  <2>1. job' = [job EXCEPT ![r] = job[r]]
    BY <1>1, <1>2, <1>4
  <2>2. job[r].status \notin Active
    BY <1>4 DEF IndexAdmits, ActiveJobs, ImportInv, OneEach
  <2> QED BY <1>1, <1>2, <1>3, <1>4, <2>1, <2>2, EndStep
<1>5. CASE IndexAdmits(r)
  <2> "opening" \in Steps
    BY DEF Steps
  <2>1. w \in RunRecords /\ w.pc = "opening" /\ w.player = run[r].player /\ w.held = run[r].held
        /\ w.todo = run[r].todo /\ w.known = {} /\ w.newest = run[r].newest
    BY <1>2 DEF RunRecords
  <2>2. j \in JobRecords /\ j.status = "running"
    BY <1>2 DEF JobRecords, Active
  <2>3. run' = [run EXCEPT ![r] = w] /\ job' = [job EXCEPT ![r] = j]
    BY <1>1, <1>2, <1>5 DEF GoTo
  <2> HIDE DEF w, j
  <2>4. Fits(w, j, owner', played)
    BY <1>1, <1>2, <2>1, <2>2 DEF Fits
  <2>5. w.pc \notin Resting
    BY <2>1 DEF Resting
  <2> QED BY <1>1, <1>2, <1>3, <1>5, <2>1, <2>2, <2>3, <2>4, <2>5, RunStep
<1> QED BY <1>4, <1>5


\* What the answer to a games request holds; all the games asked for, when one
\* import takes all the games there are.
LEMMA Fetched ==
    ASSUME ImportInv, NEW h, NEW since \in Times
    PROVE  /\ \A g \in FetchUserGames(h, since) : g \in since + 1..played /\ h \in Games[g]
           /\ Len(Games) <= MaxGames =>
                \A g \in since + 1..played : h \in Games[g] => g \in FetchUserGames(h, since)
<1> DEFINE new == {g \in since + 1..played : h \in Games[g]}
<1>1. FetchUserGames(h, since) = {g \in new : Cardinality({x \in new : x > g}) < MaxGames}
  BY DEF FetchUserGames
<1>2. played \in 0..Len(Games) /\ since \in 0..Len(Games) /\ Len(Games) \in Nat /\ MaxGames \in Nat
  BY ImportRecords, LichessImportAssumption DEF ImportInv, ImportTypes, Times
<1>3. ASSUME Len(Games) <= MaxGames, NEW g \in new
      PROVE Cardinality({x \in new : x > g}) < MaxGames
  <2> DEFINE all == 1..Len(Games)
             later == {x \in new : x > g}
  <2>1. g \in all /\ later \subseteq all \ {g}
    BY <1>2
  <2>2. IsFiniteSet(all) /\ Cardinality(all) = Len(Games)
    <3>1. IsFiniteSet(all) /\ Cardinality(all) = IF 1 > Len(Games) THEN 0 ELSE Len(Games) - 1 + 1
      BY <1>2, FS_Interval
    <3> QED BY <1>2, <3>1
  <2> HIDE DEF all, later
  <2>3. IsFiniteSet(all \ {g}) /\ Cardinality(all \ {g}) = Len(Games) - 1
    BY <2>1, <2>2, FS_RemoveElement
  <2>4. IsFiniteSet(later) /\ Cardinality(later) <= Cardinality(all \ {g})
    BY <2>1, <2>3, FS_Subset
  <2>5. Cardinality(later) \in Nat
    BY <2>4, FS_CardinalityType
  <2>6. Cardinality(later) < MaxGames
    BY <1>2, <1>3, <2>3, <2>4, <2>5
  <2> QED BY <2>6 DEF later
<1> QED BY <1>1, <1>3

LEMMA OpenStreamOK == ASSUME ImportInv, NEW r \in Runs, OpenStream(r) PROVE ImportInv'
<1> DEFINE held == run[r].held
           games == FetchUserGames(held.handle, held.watermark)
           mine == {g \in DOMAIN Games : owner[g] = run[r].player}
           w == [run[r] EXCEPT !.pc = "streaming", !.todo = games, !.known = mine]
<1>1. /\ run[r].pc = "opening" /\ UNCHANGED <<rest, link, owner, scored, alert>>
      /\ held.handle \in gone => FailStream(r, "not_found")
      /\ held.handle \notin gone =>
           run' = [run EXCEPT ![r].pc = "streaming", ![r].todo = games, ![r].known = mine]
           /\ UNCHANGED job
  BY DEF OpenStream, At
<1>2. /\ run \in [Runs -> RunRecords] /\ job \in [Runs -> JobRecords]
      /\ run[r] \in RunRecords /\ job[r] \in JobRecords
      /\ Fits(run[r], job[r], owner, played) /\ run[r].player \in Players /\ run[r].player # NoOne
      /\ scored \subseteq {g \in DOMAIN Games : owner[g] # NoOne} /\ alert \subseteq Players
  BY <1>1, OfRun
<1>3. Grows(owner, owner') /\ LinksKept
  BY <1>1, OwnersUnchanged, LinksUnchanged
<1>4. CASE held.handle \in gone
  BY <1>1, <1>4, FailStep
<1>5. CASE held.handle \notin gone
  <2>1. held \in LinkRows /\ run[r].newest = 0
    BY <1>1, <1>2 DEF Fits
  <2>2. held.watermark \in Times /\ held.watermark \in 0..Len(Games) /\ Len(Games) \in Nat
        /\ played \in 0..Len(Games)
    BY <2>1, ImportRecords DEF Times, ImportInv, ImportTypes
  <2>3. /\ \A g \in games : g \in held.watermark + 1..played /\ held.handle \in Games[g]
        /\ Len(Games) <= MaxGames =>
             \A g \in held.watermark + 1..played : held.handle \in Games[g] => g \in games
    BY <2>2, Fetched
  <2>4. games \subseteq Nat
    BY <2>2, <2>3
  <2>5. mine \subseteq DOMAIN Games /\ \A g \in mine : owner[g] # NoOne
    BY <1>2
  <2> HIDE DEF games, mine
  <2>6. w \in RunRecords /\ w.pc = "streaming" /\ w.player = run[r].player /\ w.held = held
        /\ w.todo = games /\ w.known = mine /\ w.newest = run[r].newest
    BY <1>2, <2>4, <2>5 DEF RunRecords, Steps
  <2>7. run' = [run EXCEPT ![r] = w] /\ job' = [job EXCEPT ![r] = job[r]]
    BY <1>1, <1>2, <1>5
  <2> HIDE DEF w
  <2>8. \A g \in games : g \in 1..played
    BY <2>2, <2>3
  <2>9. SeesAll(w, owner)
    <3> SUFFICES ASSUME Len(Games) <= MaxGames, NEW y \in w.todo \union {w.newest},
                        NEW x \in w.held.watermark + 1..y, w.held.handle \in Games[x]
                 PROVE x \in w.todo
      BY DEF SeesAll
    <3>1. y \in 0..played
      BY <2>1, <2>2, <2>6, <2>8
    <3>2. x \in held.watermark + 1..played
      BY <2>2, <2>6, <3>1
    <3> QED BY <2>3, <2>6, <3>2
  <2>10. Fits(w, job[r], owner', played)
    BY <1>1, <1>2, <2>1, <2>3, <2>5, <2>6, <2>8, <2>9 DEF Fits
  <2>11. w.pc \notin Resting
    BY <2>6 DEF Resting
  <2> QED BY <1>1, <1>2, <1>3, <2>6, <2>7, <2>10, <2>11, RunStep
<1> QED BY <1>4, <1>5

LEMMA ImportGameOK == ASSUME ImportInv, NEW r \in Runs, ImportGame(r) PROVE ImportInv'
<1> DEFINE p == run[r].player
<1>1. run[r].pc = "streaming" /\ UNCHANGED <<rest, link, scored, alert>>
  BY DEF ImportGame, At
<1>2. PICK g \in run[r].todo :
        LET left == [run[r] EXCEPT !.todo = @ \ {g}]
        IN  /\ \A x \in run[r].todo : x <= g
            /\ IF Skipped(r, g)
               THEN run' = [run EXCEPT ![r] = left] /\ UNCHANGED <<owner, job>>
               ELSE IF owner[g] # NoOne
               THEN FailStream(r, "duplicate") /\ UNCHANGED owner
               ELSE /\ owner' = [owner EXCEPT ![g] = run[r].player]
                    /\ IF IsJob(r) /\ job[r].status \notin Active
                       THEN GoTo(r, "done")
                       ELSE run' = [run EXCEPT ![r] =
                              [left EXCEPT !.newest = IF g > @ THEN g ELSE @]]
                    /\ UNCHANGED job
  BY DEF ImportGame
<1> DEFINE left == [run[r] EXCEPT !.todo = @ \ {g}]
           later == IF g > run[r].newest THEN g ELSE run[r].newest
           w == [left EXCEPT !.newest = later]
<1>3. /\ run \in [Runs -> RunRecords] /\ job \in [Runs -> JobRecords]
      /\ run[r] \in RunRecords /\ job[r] \in JobRecords
      /\ Fits(run[r], job[r], owner, played) /\ p \in Players /\ p # NoOne
      /\ scored \subseteq {x \in DOMAIN Games : owner[x] # NoOne} /\ alert \subseteq Players
  BY <1>1, OfRun
<1>4. /\ owner \in [DOMAIN Games -> Players \union {NoOne}] /\ played \in 0..Len(Games)
      /\ Len(Games) \in Nat /\ DOMAIN Games = 1..Len(Games)
  BY ImportRecords DEF ImportInv, ImportTypes, Times
<1>5. g \in 1..played /\ run[r].held.handle \in Games[g] /\ g \in DOMAIN Games /\ g \in Nat
  <2>1. g \in 1..played /\ run[r].held.handle \in Games[g]
    BY <1>3 DEF Fits
  <2> QED BY <1>4, <2>1
<1>6. /\ left \in RunRecords /\ left.pc = "streaming" /\ left.player = p
      /\ left.held = run[r].held /\ left.todo = run[r].todo \ {g}
      /\ left.known = run[r].known /\ left.newest = run[r].newest
  BY <1>1, <1>3 DEF RunRecords
<1>7. run[r].newest \in Nat /\ later \in Nat /\ later \in {g, run[r].newest}
  BY <1>3, <1>5 DEF RunRecords
<1> HIDE DEF later
<1>8. /\ w \in RunRecords /\ w.pc = "streaming" /\ w.player = p
      /\ w.held = run[r].held /\ w.todo = run[r].todo \ {g}
      /\ w.known = run[r].known /\ w.newest = later
  BY <1>6, <1>7 DEF RunRecords
<1>9. job = [job EXCEPT ![r] = job[r]]
  BY <1>3
<1>10. "streaming" \notin Resting
  BY DEF Resting
<1> HIDE DEF left, w
<1>11. CASE Skipped(r, g)
  <2>1. run' = [run EXCEPT ![r] = left] /\ owner' = owner /\ job' = job
    BY <1>2, <1>11 DEF left
  <2>2. owner[g] # NoOne \/ g \in Unusable
    BY <1>3, <1>11 DEF Skipped, Fits
  <2>3. SeesAll(left, owner)
    BY <1>1, <1>3, <1>6, <2>2 DEF Fits, SeesAll
  <2>4. Fits(left, job[r], owner', played)
    BY <1>1, <1>3, <1>6, <2>1, <2>3 DEF Fits
  <2>5. Grows(owner, owner') /\ LinksKept
    BY <1>1, <2>1, OwnersUnchanged, LinksUnchanged
  <2> QED BY <1>1, <1>3, <1>6, <1>9, <1>10, <2>1, <2>4, <2>5, RunStep
<1>12. CASE ~Skipped(r, g) /\ owner[g] # NoOne
  <2>1. FailStream(r, "duplicate") /\ owner' = owner
    BY <1>2, <1>12
  <2> QED BY <1>1, <2>1, FailStep
<1>13. CASE ~Skipped(r, g) /\ owner[g] = NoOne
  <2>1. owner' = [owner EXCEPT ![g] = p] /\ job' = job
    BY <1>2, <1>13
  <2>2. Grows(owner, owner') /\ owner'[g] = p
    BY <1>3, <1>4, <1>5, <1>13, <2>1 DEF Grows
  <2>3. LinksKept
    BY <1>1, <2>2, LinksUnchanged
  <2>4. scored' \subseteq {x \in DOMAIN Games : owner'[x] # NoOne} /\ alert' \subseteq Players
    BY <1>1, <1>3, <2>2 DEF Grows
  <2>5. CASE IsJob(r) /\ job[r].status \notin Active
    <3>1. GoTo(r, "done")
      BY <1>2, <1>13, <2>5
    <3> QED BY <1>1, <1>3, <1>9, <2>1, <2>2, <2>3, <2>4, <2>5, <3>1, EndStep
  <2>6. CASE ~(IsJob(r) /\ job[r].status \notin Active)
    <3>1. run' = [run EXCEPT ![r] = w]
      BY <1>2, <1>6, <1>13, <2>6 DEF w, later, left
    <3>2. played \in Times /\ played <= played
      BY <1>4 DEF Times
    <3>3. Fits(run[r], job[r], owner', played)
      BY <1>3, <2>2, <3>2, FitsGrows
    <3>4. w.newest # 0 => w.newest \in 1..played /\ w.held.handle \in Games[w.newest]
                          /\ owner'[w.newest] = w.player
      BY <1>5, <1>7, <1>8, <2>2, <3>3 DEF Fits
    <3>5. SeesAll(w, owner')
      <4>1. SeesAll(run[r], owner')
        BY <1>1, <3>3 DEF Fits
      <4>2. w.todo \union {w.newest} \subseteq run[r].todo \union {run[r].newest}
        BY <1>7, <1>8
      <4> QED BY <1>3, <1>8, <2>2, <4>1, <4>2 DEF SeesAll
    <3>6. Fits(w, job[r], owner', played)
      BY <1>1, <1>8, <3>3, <3>4, <3>5 DEF Fits
    <3> QED BY <1>1, <1>3, <1>8, <1>9, <1>10, <2>1, <2>2, <2>3, <2>4, <3>1, <3>6, RunStep
  <2> QED BY <2>5, <2>6
<1> QED BY <1>11, <1>12, <1>13

\* A row that the worker rewrites keeps its id and account.
LEMMA RowRewritten ==
    ASSUME ImportInv, owner' = owner, NEW p \in Players, NEW row \in LinkRows,
           link[p] \in LinkRows, link' = [link EXCEPT ![p] = row],
           row.id = link[p].id, row.handle = link[p].handle,
           Covers(row, owner), OfOwnLink(p, row, owner)
    PROVE  LinksKept
<1>1. link \in [Players -> LinkRows \union {NoLink}]
      /\ \A q \in Players : Covers(link[q], owner) /\ OfOwnLink(q, link[q], owner)
  BY DEF ImportInv, ImportTypes
<1>2. \A q \in Players : link'[q] = IF q = p THEN row ELSE link[q]
  BY <1>1
<1>3. link[p] # NoLink
  BY ImportRecords
<1> QED BY <1>1, <1>2, <1>3 DEF LinksKept

LEMMA Disconnected ==
    ASSUME ImportInv, owner' = owner, NEW p \in Players, link[p] \in LinkRows, NEW b \in BOOLEAN,
           link' = [link EXCEPT ![p].disconnected = b]
    PROVE  LinksKept
<1> DEFINE row == [link[p] EXCEPT !.disconnected = b]
<1>1. Covers(link[p], owner) /\ OfOwnLink(p, link[p], owner)
  BY DEF ImportInv
<1>2. row \in LinkRows /\ row.id = link[p].id /\ row.handle = link[p].handle
      /\ row.watermark = link[p].watermark
  BY DEF LinkRows
<1>3. link' = [link EXCEPT ![p] = row]
  OBVIOUS
<1> HIDE DEF row
<1>4. Covers(row, owner) /\ OfOwnLink(p, row, owner)
  BY <1>1, <1>2 DEF Covers, OfOwnLink
<1> QED BY <1>2, <1>3, <1>4, RowRewritten

\* After a clean stream.
LEMMA StreamedStep ==
    ASSUME ImportInv, NEW r \in Runs, run[r].pc = "streaming", GoTo(r, AfterStream(r)),
           LinksKept, UNCHANGED <<rest, job, owner, scored, alert>>
    PROVE  ImportInv'
<1>1. /\ job \in [Runs -> JobRecords] /\ job[r] \in JobRecords
      /\ Fits(run[r], job[r], owner, played)
      /\ scored \subseteq {x \in DOMAIN Games : owner[x] # NoOne} /\ alert \subseteq Players
  BY OfRun
<1>2. job' = [job EXCEPT ![r] = job[r]] /\ job[r].status # "queued" /\ Grows(owner, owner')
  BY <1>1, OwnersUnchanged DEF Fits
<1>3. CASE AfterStream(r) = "done"
  <2>1. job[r].status \notin Active
    BY <1>3 DEF AfterStream, IsJob, Active
  <2> QED BY <1>1, <1>2, <1>3, <2>1, EndStep
<1>4. CASE AfterStream(r) # "done"
  <2>1. PICK pc \in {"reconnecting", "analyzing"} :
            pc = AfterStream(r) /\ (pc = "analyzing" => job[r].status # "none")
    BY <1>4 DEF AfterStream, IsJob
  <2>2. GoTo(r, pc) /\ run[r].pc \notin {"unused", "queued", "done"} /\ UNCHANGED rest
    BY <2>1
  <2>3. /\ pc \in {"analyzing", "promoting"} => job[r].status # "none"
        /\ pc \notin {"marking", "alerting"}
    BY <2>1
  <2>4. owner' = owner /\ scored' = scored /\ alert' \subseteq Players /\ LinksKept
    BY <1>1
  <2> QED BY <1>1, <1>2, <2>1, <2>2, <2>3, <2>4, GoOnStep
<1> QED BY <1>3, <1>4

LEMMA AdvanceWatermarkOK == ASSUME ImportInv, NEW r \in Runs, AdvanceWatermark(r) PROVE ImportInv'
<1> DEFINE p == run[r].player
           row == [link[p] EXCEPT !.watermark = run[r].newest]
<1>1. /\ run[r].pc = "streaming" /\ run[r].todo = {} /\ UNCHANGED <<rest, owner, scored, alert>>
      /\ IF run[r].newest = 0
         THEN GoTo(r, AfterStream(r)) /\ UNCHANGED <<link, job>>
         ELSE IF RowStillThere(r)
         THEN /\ link' = [link EXCEPT ![p].watermark = run[r].newest]
              /\ GoTo(r, AfterStream(r)) /\ UNCHANGED job
         ELSE FailStream(r, "stale") /\ UNCHANGED link
  BY DEF AdvanceWatermark, At, StreamDone
<1>2. /\ run[r] \in RunRecords /\ Fits(run[r], job[r], owner, played)
      /\ p \in Players /\ link[p] \in LinkRows \union {NoLink}
  BY <1>1, OfRun
<1>3. CASE run[r].newest = 0
  <2>1. LinksKept
    BY <1>1, <1>3, OwnersUnchanged, LinksUnchanged
  <2> QED BY <1>1, <1>3, <2>1, StreamedStep
<1>4. CASE run[r].newest # 0 /\ ~RowStillThere(r)
  BY <1>1, <1>4, FailStep
<1>5. CASE run[r].newest # 0 /\ RowStillThere(r)
  <2>1. run[r].held \in LinkRows /\ run[r].held.id \in 1..MaxLinks
    BY <1>1, <1>2 DEF Fits, LinkRows
  <2>2. link[p].id = run[r].held.id
    BY <1>5 DEF RowStillThere
  <2>3. link[p] \in LinkRows /\ link[p].handle = run[r].held.handle
    BY <1>2, <2>1, <2>2, ImportRecords, LichessImportAssumption DEF ImportInv, LinksApart
  <2>4. /\ run[r].newest \in 1..played /\ run[r].held.handle \in Games[run[r].newest]
        /\ owner[run[r].newest] = p /\ Covers(run[r].held, owner) /\ SeesAll(run[r], owner)
    BY <1>1, <1>2, <1>5 DEF Fits
  <2>5. /\ played \in 0..Len(Games) /\ Len(Games) \in Nat
        /\ run[r].held.watermark \in 0..Len(Games)
    BY <2>1, ImportRecords DEF ImportInv, ImportTypes, Times
  <2>6. run[r].newest \in Times /\ run[r].newest \in Nat
    BY <2>4, <2>5 DEF Times
  <2>7. row \in LinkRows /\ row.id = link[p].id /\ row.handle = link[p].handle
        /\ row.watermark = run[r].newest
    BY <2>3, <2>6 DEF LinkRows
  <2>8. link' = [link EXCEPT ![p] = row] /\ GoTo(r, AfterStream(r)) /\ UNCHANGED job
    BY <1>1, <1>5
  <2> HIDE DEF row
  <2>9. OfOwnLink(p, row, owner)
    BY <2>3, <2>4, <2>7 DEF OfOwnLink
  <2>10. Covers(row, owner)
    <3> SUFFICES ASSUME Len(Games) <= MaxGames, NEW g \in 1..row.watermark,
                        row.handle \in Games[g], g \notin Unusable
                 PROVE owner[g] # NoOne
      BY DEF Covers
    <3>1. CASE g <= run[r].held.watermark
      <4>1. g \in 1..run[r].held.watermark
        BY <2>5, <2>6, <2>7, <3>1
      <4> QED BY <2>3, <2>4, <2>7, <4>1 DEF Covers
    <3>2. CASE ~(g <= run[r].held.watermark)
      <4>1. g \in run[r].held.watermark + 1..run[r].newest
        BY <2>5, <2>6, <2>7, <3>2
      <4> QED BY <1>1, <2>3, <2>4, <2>7, <4>1 DEF SeesAll
    <3> QED BY <3>1, <3>2
  <2>11. LinksKept
    BY <1>1, <1>2, <2>3, <2>7, <2>8, <2>9, <2>10, RowRewritten
  <2> QED BY <1>1, <2>8, <2>11, StreamedStep
<1> QED BY <1>3, <1>4, <1>5

LEMMA ReconnectOK == ASSUME ImportInv, NEW r \in Runs, Reconnect(r) PROVE ImportInv'
<1> DEFINE p == run[r].player
<1>1. /\ run[r].pc = "reconnecting" /\ UNCHANGED <<rest, owner, scored, alert>>
      /\ IF RowStillThere(r)
         THEN /\ link' = [link EXCEPT ![p].disconnected = FALSE]
              /\ GoTo(r, "resolving") /\ UNCHANGED job
         ELSE FailStream(r, "stale") /\ UNCHANGED link
  BY DEF Reconnect, At
<1>2. /\ job \in [Runs -> JobRecords] /\ job[r] \in JobRecords
      /\ Fits(run[r], job[r], owner, played)
      /\ p \in Players /\ link[p] \in LinkRows \union {NoLink} /\ alert \subseteq Players
  BY <1>1, OfRun
<1>3. CASE ~RowStillThere(r)
  BY <1>1, <1>3, FailStep
<1>4. CASE RowStillThere(r)
  <2>1. run[r].held \in LinkRows /\ run[r].held.id \in 1..MaxLinks
    BY <1>1, <1>2 DEF Fits, LinkRows
  <2>2. link[p] \in LinkRows
    BY <1>2, <1>4, <2>1, ImportRecords, LichessImportAssumption DEF RowStillThere
  <2>3. LinksKept
    BY <1>1, <1>2, <1>4, <2>2, Disconnected
  <2>4. job' = [job EXCEPT ![r] = job[r]] /\ job[r].status # "queued" /\ GoTo(r, "resolving")
    BY <1>1, <1>2, <1>4 DEF Fits
  <2> QED BY <1>1, <1>2, <2>3, <2>4, GoOnStep
<1> QED BY <1>3, <1>4

LEMMA ResolveOK == ASSUME ImportInv, NEW r \in Runs, Resolve(r) PROVE ImportInv'
<1>1. /\ run[r].pc = "resolving" /\ alert' = alert \ {run[r].player}
      /\ GoTo(r, IF IsJob(r) THEN "analyzing" ELSE "done")
      /\ UNCHANGED <<rest, link, owner, scored, job>>
  BY DEF Resolve, At
<1>2. /\ job \in [Runs -> JobRecords] /\ job[r] \in JobRecords
      /\ Fits(run[r], job[r], owner, played)
      /\ scored \subseteq {x \in DOMAIN Games : owner[x] # NoOne} /\ alert' \subseteq Players
  BY <1>1, OfRun
<1>3. Grows(owner, owner') /\ LinksKept
  BY <1>1, OwnersUnchanged, LinksUnchanged
<1>4. job' = [job EXCEPT ![r] = job[r]] /\ job[r].status # "queued"
  BY <1>1, <1>2 DEF Fits
<1>5. CASE IsJob(r)
  BY <1>1, <1>2, <1>3, <1>4, <1>5, GoOnStep DEF IsJob
<1>6. CASE ~IsJob(r)
  <2>1. job[r].status \notin Active
    BY <1>6 DEF IsJob, Active
  <2> QED BY <1>1, <1>2, <1>3, <1>4, <1>6, <2>1, EndStep
<1> QED BY <1>5, <1>6

LEMMA RecheckOK == ASSUME ImportInv, NEW r \in Runs, Recheck(r) PROVE ImportInv'
<1>1. /\ run[r].pc = "analyzing"
      /\ GoTo(r, IF job[r].status = "running" THEN "promoting" ELSE "done")
      /\ UNCHANGED <<rest, link, owner, scored, job, alert>>
  BY DEF Recheck, At
<1>2. /\ job \in [Runs -> JobRecords] /\ job[r] \in JobRecords
      /\ Fits(run[r], job[r], owner, played)
      /\ scored \subseteq {x \in DOMAIN Games : owner[x] # NoOne} /\ alert \subseteq Players
  BY <1>1, OfRun
<1>3. Grows(owner, owner') /\ LinksKept
  BY <1>1, OwnersUnchanged, LinksUnchanged
<1>4. job' = [job EXCEPT ![r] = job[r]] /\ job[r].status # "queued"
  BY <1>1, <1>2 DEF Fits
<1>5. CASE job[r].status = "running"
  BY <1>1, <1>2, <1>3, <1>4, <1>5, GoOnStep
<1>6. CASE job[r].status # "running"
  <2>1. job[r].status \notin Active
    BY <1>4, <1>6 DEF Active
  <2> QED BY <1>1, <1>2, <1>3, <1>4, <1>6, <2>1, EndStep
<1> QED BY <1>5, <1>6

LEMMA PromoteOK == ASSUME ImportInv, NEW r \in Runs, Promote(r) PROVE ImportInv'
<1> DEFINE j == [job[r] EXCEPT !.status = "succeeded"]
<1>1. /\ run[r].pc = "promoting" /\ job' = [job EXCEPT ![r] = j] /\ GoTo(r, "done")
      /\ UNCHANGED <<rest, link, owner, scored, alert>>
  BY DEF Promote, At
<1>2. /\ job[r] \in JobRecords
      /\ scored \subseteq {x \in DOMAIN Games : owner[x] # NoOne} /\ alert \subseteq Players
  BY <1>1, OfRun
<1>3. Grows(owner, owner') /\ LinksKept
  BY <1>1, OwnersUnchanged, LinksUnchanged
<1>4. j \in JobRecords /\ j.status \notin Active
  BY <1>2 DEF JobRecords, Active
<1> HIDE DEF j
<1> QED BY <1>1, <1>2, <1>3, <1>4, EndStep

LEMMA MarkDisconnectedOK == ASSUME ImportInv, NEW r \in Runs, MarkDisconnected(r) PROVE ImportInv'
<1> DEFINE p == run[r].player
<1>1. /\ run[r].pc = "marking" /\ UNCHANGED <<rest, owner, scored, job, alert>>
      /\ IF link[p] = NoLink
         THEN GoTo(r, "done") /\ UNCHANGED link
         ELSE /\ link' = [link EXCEPT ![p].disconnected = TRUE]
              /\ GoTo(r, "alerting")
  BY DEF MarkDisconnected, At
<1>2. /\ job \in [Runs -> JobRecords] /\ job[r] \in JobRecords
      /\ Fits(run[r], job[r], owner, played)
      /\ p \in Players /\ link[p] \in LinkRows \union {NoLink}
      /\ scored \subseteq {x \in DOMAIN Games : owner[x] # NoOne} /\ alert \subseteq Players
  BY <1>1, OfRun
<1>3. job' = [job EXCEPT ![r] = job[r]] /\ job[r].status # "queued" /\ job[r].status \notin Active
  BY <1>1, <1>2 DEF Fits
<1>4. CASE link[p] = NoLink
  <2>1. Grows(owner, owner') /\ LinksKept
    BY <1>1, <1>4, OwnersUnchanged, LinksUnchanged
  <2> QED BY <1>1, <1>2, <1>3, <1>4, <2>1, EndStep
<1>5. CASE link[p] # NoLink
  <2>1. LinksKept
    BY <1>1, <1>2, <1>5, Disconnected
  <2> QED BY <1>1, <1>2, <1>3, <1>5, <2>1, GoOnStep
<1> QED BY <1>4, <1>5

LEMMA NotifyDisconnectedOK ==
    ASSUME ImportInv, NEW r \in Runs, NotifyDisconnected(r) PROVE ImportInv'
<1>1. /\ run[r].pc = "alerting" /\ alert' = alert \union {run[r].player} /\ GoTo(r, "done")
      /\ UNCHANGED <<rest, link, owner, scored, job>>
  BY DEF NotifyDisconnected, At
<1>2. /\ job \in [Runs -> JobRecords] /\ job[r] \in JobRecords
      /\ Fits(run[r], job[r], owner, played)
      /\ scored \subseteq {x \in DOMAIN Games : owner[x] # NoOne} /\ alert' \subseteq Players
  BY <1>1, OfRun
<1>3. Grows(owner, owner') /\ LinksKept
  BY <1>1, OwnersUnchanged, LinksUnchanged
<1>4. job' = [job EXCEPT ![r] = job[r]] /\ job[r].status \notin Active
  BY <1>1, <1>2 DEF Fits
<1> QED BY <1>1, <1>2, <1>3, <1>4, EndStep

LEMMA StreamBreaksOK == ASSUME ImportInv, NEW r \in Runs, StreamBreaks(r) PROVE ImportInv'
BY FailStep DEF StreamBreaks, At

LEMMA AnalyzeGameOK == ASSUME ImportInv, NEW r \in Runs, AnalyzeGame(r) PROVE ImportInv'
<1>1. /\ run[r].pc = "analyzing" /\ UNCHANGED <<rest, link, owner, job, run, alert>>
      /\ \E g \in DOMAIN Games \ scored : owner[g] = run[r].player /\ scored' = scored \union {g}
  BY DEF AnalyzeGame, At
<1>2. /\ job \in [Runs -> JobRecords] /\ run \in [Runs -> RunRecords]
      /\ run[r] \in RunRecords /\ job[r] \in JobRecords
      /\ Fits(run[r], job[r], owner, played) /\ run[r].player # NoOne
      /\ scored \subseteq {x \in DOMAIN Games : owner[x] # NoOne} /\ alert \subseteq Players
  BY <1>1, OfRun
<1>3. Grows(owner, owner') /\ LinksKept
  BY <1>1, OwnersUnchanged, LinksUnchanged
<1>4. run' = [run EXCEPT ![r] = run[r]] /\ job' = [job EXCEPT ![r] = job[r]]
  BY <1>1, <1>2
<1>5. scored' \subseteq {x \in DOMAIN Games : owner'[x] # NoOne} /\ alert' \subseteq Players
  BY <1>1, <1>2
<1>6. run[r].pc \notin Resting /\ run[r].pc # "unused" /\ Fits(run[r], job[r], owner', played)
  BY <1>1, <1>2 DEF Resting
<1>7. UNCHANGED rest
  BY <1>1
<1> QED BY <1>2, <1>3, <1>4, <1>5, <1>6, <1>7, RunStep

LEMMA RunWorkOK ==
    ASSUME ImportInv, NEW r \in Runs, Work(r) \/ StreamBreaks(r) \/ AnalyzeGame(r) PROVE ImportInv'
<1>1. CASE Work(r)
  <2>1. CASE PickUp(r) BY <2>1, PickUpOK
  <2>2. CASE SetRunning(r) BY <2>2, SetRunningOK
  <2>3. CASE OpenStream(r) BY <2>3, OpenStreamOK
  <2>4. CASE ImportGame(r) BY <2>4, ImportGameOK
  <2>5. CASE AdvanceWatermark(r) BY <2>5, AdvanceWatermarkOK
  <2>6. CASE Reconnect(r) BY <2>6, ReconnectOK
  <2>7. CASE Resolve(r) BY <2>7, ResolveOK
  <2>8. CASE Recheck(r) BY <2>8, RecheckOK
  <2>9. CASE Promote(r) BY <2>9, PromoteOK
  <2>10. CASE MarkDisconnected(r) BY <2>10, MarkDisconnectedOK
  <2>11. CASE NotifyDisconnected(r) BY <2>11, NotifyDisconnectedOK
  <2> QED BY <1>1, <2>1, <2>2, <2>3, <2>4, <2>5, <2>6, <2>7, <2>8, <2>9, <2>10, <2>11 DEF Work
<1>2. CASE StreamBreaks(r)
  BY <1>2, StreamBreaksOK
<1>3. CASE AnalyzeGame(r)
  BY <1>3, AnalyzeGameOK
<1> QED BY <1>1, <1>2, <1>3

\* Lichess and the requests change no run, and of the jobs they only end some.
LEMMA RunsUnchanged ==
    ASSUME ImportInv, run' = run, owner' = owner, scored' = scored, stops' \in 0..MaxStops,
           up' \in BOOLEAN, abandoned' \subseteq Runs,
           \/ (up' => up) /\ abandoned' = abandoned
           \/ \A r \in Runs \ abandoned' : job'[r].status \notin Active,
           played' \in Times, played <= played', gone' \subseteq Handles,
           alert' \subseteq Players, answering' \subseteq Players,
           job' \in [Runs -> JobRecords], \A r \in Runs : job'[r] \in {job[r], Failed},
           \A r \in Runs : job[r].status \notin Active => job'[r] = job[r],
           links' \in 0..MaxLinks, link' \in [Players -> LinkRows \union {NoLink}],
           LinksApart', \A p \in Players : Covers(link'[p], owner) /\ OfOwnLink(p, link'[p], owner)
    PROVE  ImportInv'
<1>1. /\ ImportTypes /\ OneEach /\ ActiveJobsWorkedOn
      /\ \A s \in Runs : Fits(run[s], job[s], owner, played)
  BY DEF ImportInv
<1>2. Failed.status = "failed" /\ Failed.status \notin Active /\ Failed \in JobRecords
  BY ImportRecords DEF Active
<1>3. \A r \in Runs : job'[r].status \in Active => job'[r] = job[r]
  BY <1>2
<1>4. ImportTypes'
  BY <1>1 DEF ImportTypes
<1>5. OneEach'
  BY <1>1, <1>3 DEF OneEach
<1>6. ActiveJobsWorkedOn'
  BY <1>1, <1>3 DEF ActiveJobsWorkedOn
<1>7. ASSUME NEW r \in Runs PROVE Fits(run[r], job'[r], owner, played')
  <2>1. run[r] \in RunRecords /\ job[r] \in JobRecords /\ played \in Times
    BY <1>1 DEF ImportTypes
  <2>2. Grows(owner, owner)
    BY <1>1 DEF ImportTypes, Grows
  <2>3. Fits(run[r], job[r], owner, played')
    BY <1>1, <2>1, <2>2, FitsGrows
  <2>4. CASE job'[r] = job[r]
    BY <2>3, <2>4
  <2>5. CASE job'[r] # job[r]
    <3>1. job'[r] = Failed /\ job[r].status \in Active
      BY <2>5
    <3>2. run[r].pc # "unused"
      BY <2>3, <3>1 DEF Fits, Active
    <3> QED BY <1>2, <2>3, <3>1, <3>2 DEF Fits
  <2> QED BY <2>4, <2>5
<1> QED BY <1>4, <1>5, <1>6, <1>7 DEF ImportInv, Covers, OfOwnLink, Fits, SeesAll

\* The jobs of some players fail.
LEMMA JobsFail ==
    ASSUME ImportInv, NEW owners, job' = FailActive(owners)
    PROVE  /\ job' \in [Runs -> JobRecords] /\ \A r \in Runs : job'[r] \in {job[r], Failed}
           /\ \A r \in Runs : job[r].status \notin Active => job'[r] = job[r]
BY ImportRecords DEF ImportInv, ImportTypes, FailActive

LEMMA PlayGameOK == ASSUME ImportInv, PlayGame PROVE ImportInv'
<1>1. /\ played < Len(Games) /\ played' = played + 1
      /\ UNCHANGED <<up, stops, links, link, gone, owner, scored, job, run, alert, answering, abandoned>>
  BY DEF PlayGame
<1>2. played' \in Times /\ played <= played'
  BY <1>1, ImportRecords DEF ImportInv, ImportTypes, Times
<1>3. LinksApart' /\ job \in [Runs -> JobRecords]
  BY <1>1 DEF ImportInv, ImportTypes, LinksApart
<1> QED BY <1>1, <1>2, <1>3, RunsUnchanged DEF ImportInv, ImportTypes

LEMMA CloseAccountOK == ASSUME ImportInv, NEW h \in Handles, CloseAccount(h) PROVE ImportInv'
<1>1. /\ gone' = gone \union {h}
      /\ UNCHANGED <<up, stops, links, link, played, owner, scored, job, run, alert, answering, abandoned>>
  BY DEF CloseAccount
<1>2. LinksApart' /\ played <= played /\ gone' \subseteq Handles
  BY <1>1, ImportRecords DEF ImportInv, ImportTypes, LinksApart, Times
<1> QED BY <1>1, <1>2, RunsUnchanged DEF ImportInv, ImportTypes

LEMMA AnswerAlertOK == ASSUME ImportInv, NEW p \in Players, AnswerAlert(p) PROVE ImportInv'
<1>1. /\ answering' = answering \ {p} /\ alert' = alert \ {p}
      /\ UNCHANGED <<up, stops, links, link, played, gone, owner, scored, job, run, abandoned>>
  BY DEF AnswerAlert
<1>2. LinksApart' /\ played <= played
  BY <1>1, ImportRecords DEF ImportInv, ImportTypes, LinksApart, Times
<1> QED BY <1>1, <1>2, RunsUnchanged DEF ImportInv, ImportTypes

LEMMA LinkToOK ==
    ASSUME ImportInv, NEW p \in Players, NEW h \in Handles, LinkTo(p, h) PROVE ImportInv'
<1> DEFINE new == [NoLink EXCEPT !.id = links + 1, !.handle = h]
<1>1. /\ links < MaxLinks /\ links' = links + 1 /\ link' = Relinked(p, h)
      /\ job' = FailActive(Holders(h) \ {p}) /\ answering' = answering \union {p}
      /\ UNCHANGED <<up, stops, played, gone, owner, scored, run, alert, abandoned>>
  BY DEF LinkTo
<1>2. /\ ImportTypes /\ LinksApart /\ links \in Nat /\ MaxLinks \in Nat
      /\ \A r \in Runs : Fits(run[r], job[r], owner, played)
      /\ \A q \in Players : Covers(link[q], owner) /\ OfOwnLink(q, link[q], owner)
      /\ link \in [Players -> LinkRows \union {NoLink}]
  BY LichessImportAssumption DEF ImportInv, ImportTypes
<1>3. links + 1 \in 1..MaxLinks /\ 0 \in Times /\ played <= played /\ links' \in 0..MaxLinks
  BY <1>1, <1>2, ImportRecords DEF Times, ImportTypes
<1> DEFINE rows == [id : Nat, handle : Handles \union {NoOne}, watermark : Times, disconnected : BOOLEAN]
<1>4. NoLink \in rows /\ NoLink.watermark = 0
  BY <1>3 DEF NoLink
<1>5. new \in LinkRows /\ new.id = links + 1 /\ new.handle = h /\ new.watermark = 0
  <2> DEFINE n == links + 1
  <2>0. n \in Nat /\ h \in Handles \union {NoOne} /\ n = links + 1
    BY <1>2
  <2> HIDE DEF n
  <2>1. new \in rows /\ new.id = links + 1 /\ new.handle = h /\ new.watermark = 0
    BY <2>0, <1>4
  <2> HIDE DEF new
  <2> QED BY <1>3, <2>1 DEF LinkRows
<1>6. \A q \in Players : link'[q] = IF q = p THEN new ELSE IF q \in Holders(h) THEN NoLink ELSE link[q]
  BY <1>1 DEF Relinked
<1>7. link' \in [Players -> LinkRows \union {NoLink}]
  BY <1>1, <1>2, <1>5 DEF Relinked
<1> HIDE DEF new
<1>8. \A q \in Players : Covers(link'[q], owner) /\ OfOwnLink(q, link'[q], owner)
  <2>1. Covers(new, owner) /\ \A q \in Players : OfOwnLink(q, new, owner)
    BY <1>5 DEF Covers, OfOwnLink
  <2>2. Covers(NoLink, owner) /\ \A q \in Players : OfOwnLink(q, NoLink, owner)
    BY ImportRecords DEF Covers, OfOwnLink
  <2> QED BY <1>2, <1>6, <2>1, <2>2
<1>9. LinksApart'
  <2>1. h # NoOne
    BY LichessImportAssumption
  <2>2. \A q \in Players : link'[q].handle = h => q = p
    BY <1>6, <2>1, ImportRecords DEF Holders
  <2>3. \A q, s \in Players : link'[q].handle = link'[s].handle => q = s \/ link'[q] = NoLink
    <3> SUFFICES ASSUME NEW q \in Players, NEW s \in Players, link'[q].handle = link'[s].handle,
                        q # s, link'[q] # NoLink
                 PROVE FALSE
      OBVIOUS
    <3>1. q # p /\ s # p
      BY <1>5, <1>6, <2>2
    <3>2. link'[q] = link[q] /\ link[q] \in LinkRows
      BY <1>2, <1>6, <3>1
    <3>3. link[q].handle # NoOne
      BY <3>2, LichessImportAssumption DEF LinkRows
    <3>4. link'[s] = link[s]
      BY <1>6, <3>1, <3>2, <3>3, ImportRecords
    <3> QED BY <1>2, <3>2, <3>4, ImportRecords DEF LinksApart
  <2>4. \A q \in Players : link'[q].id <= links'
    BY <1>1, <1>2, <1>5, <1>6, ImportRecords DEF LinksApart
  <2>5. ASSUME NEW r \in Runs, run[r].held \in LinkRows
        PROVE /\ run[r].held.id <= links'
              /\ link'[run[r].player].id = run[r].held.id =>
                   link'[run[r].player].handle = run[r].held.handle
    <3>1. run[r].held.id <= links /\ run[r].held.id \in 1..MaxLinks
          /\ (link[run[r].player].id = run[r].held.id =>
                link[run[r].player].handle = run[r].held.handle)
      BY <1>2, <2>5 DEF LinksApart, LinkRows
    <3>2. run[r].player \in Players
      <4>1. run[r].pc # "unused"
        BY <1>2, <2>5, ImportRecords DEF Fits
      <4> QED BY <1>2, <4>1 DEF Fits
    <3>3. new.id # run[r].held.id /\ NoLink.id # run[r].held.id /\ run[r].held.id <= links'
      BY <1>1, <1>2, <1>5, <3>1, ImportRecords
    <3> QED BY <1>6, <3>1, <3>2, <3>3
  <2> QED BY <1>1, <2>3, <2>4, <2>5 DEF LinksApart
<1>10. /\ job' \in [Runs -> JobRecords] /\ \A r \in Runs : job'[r] \in {job[r], Failed}
       /\ \A r \in Runs : job[r].status \notin Active => job'[r] = job[r]
  BY <1>1, JobsFail
<1> QED BY <1>1, <1>2, <1>3, <1>7, <1>8, <1>9, <1>10, RunsUnchanged DEF ImportTypes

LEMMA UnlinkOK == ASSUME ImportInv, NEW p \in Players, UnlinkAccount(p) PROVE ImportInv'
<1>1. /\ link' = [link EXCEPT ![p] = NoLink] /\ job' = FailActive({p})
      /\ answering' = answering \union {p}
      /\ UNCHANGED <<up, stops, links, played, gone, owner, scored, run, alert, abandoned>>
  BY DEF UnlinkAccount
<1>2. /\ ImportTypes /\ LinksApart /\ links \in Nat /\ played <= played
      /\ \A r \in Runs : Fits(run[r], job[r], owner, played)
      /\ \A q \in Players : Covers(link[q], owner) /\ OfOwnLink(q, link[q], owner)
      /\ link \in [Players -> LinkRows \union {NoLink}]
  BY ImportRecords, LichessImportAssumption DEF ImportInv, ImportTypes, Times
<1>3. \A q \in Players : link'[q] = IF q = p THEN NoLink ELSE link[q]
  BY <1>1, <1>2
<1>4. link' \in [Players -> LinkRows \union {NoLink}]
  BY <1>1, <1>2
<1>5. \A q \in Players : Covers(link'[q], owner) /\ OfOwnLink(q, link'[q], owner)
  BY <1>2, <1>3, ImportRecords DEF Covers, OfOwnLink
<1>6. LinksApart'
  <2>1. \A q, s \in Players : link'[q].handle = link'[s].handle => q = s \/ link'[q] = NoLink
    BY <1>2, <1>3, ImportRecords, LichessImportAssumption DEF LinksApart, LinkRows
  <2>2. \A q \in Players : link'[q].id <= links'
    BY <1>1, <1>2, <1>3, ImportRecords DEF LinksApart
  <2>3. ASSUME NEW r \in Runs, run[r].held \in LinkRows
        PROVE /\ run[r].held.id <= links'
              /\ link'[run[r].player].id = run[r].held.id =>
                   link'[run[r].player].handle = run[r].held.handle
    <3>1. run[r].held.id <= links /\ run[r].held.id \in 1..MaxLinks
          /\ (link[run[r].player].id = run[r].held.id =>
                link[run[r].player].handle = run[r].held.handle)
      BY <1>2, <2>3 DEF LinksApart, LinkRows
    <3>2. run[r].player \in Players
      <4>1. run[r].pc # "unused"
        BY <1>2, <2>3, ImportRecords DEF Fits
      <4> QED BY <1>2, <4>1 DEF Fits
    <3>3. NoLink.id # run[r].held.id
      BY <3>1, LichessImportAssumption, ImportRecords
    <3> QED BY <1>1, <1>3, <3>1, <3>2, <3>3
  <2> QED BY <1>1, <2>1, <2>2, <2>3 DEF LinksApart
<1>7. /\ job' \in [Runs -> JobRecords] /\ \A r \in Runs : job'[r] \in {job[r], Failed}
      /\ \A r \in Runs : job[r].status \notin Active => job'[r] = job[r]
  BY <1>1, JobsFail
<1> QED BY <1>1, <1>2, <1>4, <1>5, <1>6, <1>7, RunsUnchanged DEF ImportTypes

\* A run begins.
LEMMA RunBegins ==
    ASSUME ImportInv, NEW r \in Runs, run[r].pc = "unused",
           NEW w \in RunRecords, NEW j \in JobRecords, w.player \in Players, w.pc \notin Resting,
           w.held \in {NoLink, link[w.player]},
           run' = [run EXCEPT ![r] = w], job' = [job EXCEPT ![r] = j],
           j.status \in Active => \A s \in Runs : run[s].player = w.player => job[s].status \notin Active,
           Fits(w, j, owner, played),
           UNCHANGED <<up, stops, links, link, played, gone, owner, scored, alert, answering, abandoned>>
    PROVE  ImportInv'
<1>1. /\ ImportTypes /\ LinksApart /\ OneEach /\ ActiveJobsWorkedOn
      /\ \A s \in Runs : Fits(run[s], job[s], owner, played)
      /\ \A p \in Players : Covers(link[p], owner) /\ OfOwnLink(p, link[p], owner)
  BY DEF ImportInv
<1>2. run \in [Runs -> RunRecords] /\ job \in [Runs -> JobRecords]
  BY <1>1 DEF ImportTypes
<1>3. \A s \in Runs : s # r => run'[s] = run[s] /\ job'[s] = job[s]
  BY <1>2
<1>4. run'[r] = w /\ job'[r] = j
  BY <1>2
<1>5. ImportTypes'
  <2>1. run' \in [Runs -> RunRecords] /\ job' \in [Runs -> JobRecords]
    BY <1>2
  <2> QED BY <1>1, <2>1 DEF ImportTypes
<1>6. LinksApart'
  <2>1. \A p \in Players : link[p].id <= links
    BY <1>1 DEF LinksApart
  <2>2. ASSUME NEW s \in Runs, run'[s].held \in LinkRows
        PROVE /\ run'[s].held.id <= links
              /\ link[run'[s].player].id = run'[s].held.id =>
                    link[run'[s].player].handle = run'[s].held.handle
    <3>1. CASE s = r
      BY <1>4, <2>1, <2>2, <3>1, ImportRecords
    <3>2. CASE s # r
      BY <1>1, <1>3, <2>2, <3>2 DEF LinksApart
    <3> QED BY <3>1, <3>2
  <2> QED BY <1>1, <2>2 DEF LinksApart
<1>7. OneEach'
  BY <1>1, <1>3, <1>4 DEF OneEach
<1>8. ActiveJobsWorkedOn'
  BY <1>1, <1>3, <1>4 DEF ActiveJobsWorkedOn
<1>9. \A s \in Runs : Fits(run'[s], job'[s], owner, played)
  BY <1>1, <1>3, <1>4
<1>10. (\A q \in Players : Covers(link[q], owner) /\ OfOwnLink(q, link[q], owner))'
  BY <1>1 DEF Covers, OfOwnLink
<1>11. (\A s \in Runs : Fits(run[s], job[s], owner, played))'
  BY <1>9 DEF Fits, Covers, SeesAll
<1> QED BY <1>5, <1>6, <1>7, <1>8, <1>10, <1>11 DEF ImportInv

LEMMA StartImportJobOK ==
    ASSUME ImportInv, NEW p \in Players, NEW r \in Runs, StartImportJob(p, r) PROVE ImportInv'
<1> DEFINE w == [run[r] EXCEPT !.pc = "queued", !.player = p]
           j == [job[r] EXCEPT !.status = "queued"]
<1>1. /\ run[r].pc = "unused" /\ run' = [run EXCEPT ![r] = w] /\ job' = [job EXCEPT ![r] = j]
      /\ \A s \in Runs : run[s].player = p => job[s].status \notin Active
      /\ UNCHANGED <<up, stops, links, link, played, gone, owner, scored, alert, answering, abandoned>>
  BY DEF StartImportJob, Fresh, Coalesces, ActiveJobs
<1>2. /\ run[r] \in RunRecords /\ job[r] \in JobRecords /\ Fits(run[r], job[r], owner, played)
  BY OfRun
<1>3. run[r] = Blank
  BY <1>1, <1>2 DEF Fits
<1>4. w \in RunRecords /\ w.pc = "queued" /\ w.player = p /\ w.held = run[r].held
      /\ w.todo = run[r].todo /\ w.known = run[r].known /\ w.newest = run[r].newest
  BY <1>2 DEF RunRecords, Steps
<1>5. j \in JobRecords /\ j.status = "queued"
  BY <1>2 DEF JobRecords, Active
<1> HIDE DEF w, j
<1>6. Fits(w, j, owner, played)
  BY <1>2, <1>3, <1>4, <1>5, ImportRecords DEF Fits
<1>7. w.pc \notin Resting
  BY <1>4 DEF Resting
<1> QED BY <1>1, <1>3, <1>4, <1>5, <1>6, <1>7, RunBegins, ImportRecords

LEMMA ImportUserGamesOK ==
    ASSUME ImportInv, NEW p \in Players, NEW r \in Runs, ImportUserGames(p, r) PROVE ImportInv'
<1> DEFINE w == [run[r] EXCEPT !.pc = "opening", !.player = p, !.held = link[p]]
<1>1. /\ run[r].pc = "unused" /\ run' = [run EXCEPT ![r] = w] /\ link[p] # NoLink
      /\ UNCHANGED <<up, stops, links, link, played, gone, owner, scored, job, alert, answering, abandoned>>
  BY DEF ImportUserGames, Fresh
<1>2. /\ run[r] \in RunRecords /\ job[r] \in JobRecords /\ Fits(run[r], job[r], owner, played)
      /\ job \in [Runs -> JobRecords]
  BY OfRun
<1>3. run[r] = Blank /\ job[r].status = "none"
  BY <1>1, <1>2 DEF Fits
<1>4. link[p] \in LinkRows /\ Covers(link[p], owner)
  BY <1>1 DEF ImportInv, ImportTypes
<1>5. w \in RunRecords /\ w.pc = "opening" /\ w.player = p /\ w.held = link[p]
      /\ w.todo = run[r].todo /\ w.known = run[r].known /\ w.newest = run[r].newest
  BY <1>2, <1>4 DEF RunRecords, Steps
<1> HIDE DEF w
<1>6. Fits(w, job[r], owner, played)
  BY <1>2, <1>3, <1>4, <1>5, ImportRecords DEF Fits
<1>7. w.pc \notin Resting /\ job[r].status \notin Active /\ job' = [job EXCEPT ![r] = job[r]]
  BY <1>1, <1>2, <1>3, <1>5 DEF Resting, Active
<1> QED BY <1>1, <1>2, <1>5, <1>6, <1>7, RunBegins

LEMMA StopOK == ASSUME ImportInv, Stop PROVE ImportInv'
<1>1. /\ stops < MaxStops /\ up' = FALSE /\ stops' = stops + 1 /\ answering' = {}
      /\ run' = [r \in Runs |-> IF run[r].pc = "unused" THEN run[r] ELSE Finished(run[r])]
      /\ UNCHANGED <<links, link, played, gone, owner, scored, job, alert, abandoned>>
  BY DEF Stop
<1>2. /\ ImportTypes /\ LinksApart /\ OneEach
      /\ \A s \in Runs : Fits(run[s], job[s], owner, played)
      /\ \A p \in Players : Covers(link[p], owner) /\ OfOwnLink(p, link[p], owner)
  BY DEF ImportInv
<1>3. ASSUME NEW r \in Runs
      PROVE /\ run'[r] \in RunRecords /\ run'[r].player = run[r].player /\ run'[r].held = NoLink
            /\ Fits(run'[r], job[r], owner, played)
  <2>1. run[r] \in RunRecords /\ Fits(run[r], job[r], owner, played)
    BY OfRun
  <2>2. CASE run[r].pc = "unused"
    <3>1. run'[r] = run[r] /\ run[r] = Blank
      BY <1>1, <2>1, <2>2 DEF Fits
    <3> QED BY <2>1, <3>1, ImportRecords
  <2>3. CASE run[r].pc # "unused"
    <3>1. run'[r] = Finished(run[r]) /\ run[r].player \in Players
      BY <1>1, <2>1, <2>3 DEF Fits
    <3> QED BY <2>1, <3>1, LastStep, FinishedFits
  <2> QED BY <2>2, <2>3
<1>4. ImportTypes'
  <2>1. stops' \in 0..MaxStops
    BY <1>1, <1>2, LichessImportAssumption DEF ImportTypes
  <2>2. run' \in [Runs -> RunRecords]
    BY <1>1, <1>3
  <2> QED BY <1>1, <1>2, <2>1, <2>2 DEF ImportTypes
<1>5. LinksApart'
  BY <1>1, <1>2, <1>3, ImportRecords DEF LinksApart
<1>6. OneEach' /\ ActiveJobsWorkedOn'
  BY <1>1, <1>2, <1>3 DEF OneEach, ActiveJobsWorkedOn
<1>7. \A p \in Players : Covers(link'[p], owner') /\ OfOwnLink(p, link'[p], owner')
  BY <1>1, <1>2
<1>8. \A r \in Runs : Fits(run'[r], job'[r], owner', played')
  BY <1>1, <1>3
<1> QED BY <1>4, <1>5, <1>6, <1>7, <1>8 DEF ImportInv, Covers, OfOwnLink, Fits, SeesAll

LEMMA StartOK == ASSUME ImportInv, Start PROVE ImportInv'
<1>1. /\ up' = TRUE
      /\ UNCHANGED <<stops, links, link, played, gone, owner, scored, run, alert, answering>>
      /\ \/ job' = FailActive(Players) /\ abandoned' = {}
         \/ job' = job /\ abandoned' = {r \in Runs : job[r].status \in Active}
  BY DEF Start, Sweep
<1>2. abandoned' \subseteq Runs
  BY <1>1
<1>3. /\ job' \in [Runs -> JobRecords] /\ \A r \in Runs : job'[r] \in {job[r], Failed}
      /\ \A r \in Runs : job[r].status \notin Active => job'[r] = job[r]
      /\ \A r \in Runs \ abandoned' : job'[r].status \notin Active
  <2>1. CASE job' = FailActive(Players)
    <3>1. ASSUME NEW r \in Runs PROVE job'[r].status \notin Active
      <4>1. job[r].status \in Active => run[r].player \in Players
        BY DEF ImportInv, Fits, Active
      <4>2. job'[r] = IF run[r].player \in Players /\ job[r].status \in Active THEN Failed ELSE job[r]
        BY <2>1 DEF FailActive
      <4>3. Failed.status \notin Active
        BY ImportRecords DEF Active
      <4> QED BY <4>1, <4>2, <4>3
    <3> QED BY <2>1, <3>1, JobsFail
  <2>2. CASE job' = job /\ abandoned' = {r \in Runs : job[r].status \in Active}
    BY <2>2 DEF ImportInv, ImportTypes
  <2> QED BY <1>1, <2>1, <2>2
<1>4. LinksApart' /\ played <= played
  BY <1>1, ImportRecords DEF ImportInv, ImportTypes, LinksApart, Times
<1> QED BY <1>1, <1>2, <1>3, <1>4, RunsUnchanged DEF ImportInv, ImportTypes

\* A worker that dies leaves its row as it is.
LEMMA WorkerDiesOK == ASSUME ImportInv, NEW r \in Runs, WorkerDies(r) PROVE ImportInv'
<1>1. /\ run[r].pc # "unused" /\ GoTo(r, "done") /\ job[r].status \in Active
      /\ abandoned' = abandoned \union {r}
      /\ UNCHANGED <<up, stops, links, link, played, gone, owner, scored, job, alert, answering>>
  BY DEF WorkerDies, Resting
<1>2. /\ run \in [Runs -> RunRecords] /\ job \in [Runs -> JobRecords]
      /\ run[r] \in RunRecords /\ job[r] \in JobRecords
      /\ Fits(run[r], job[r], owner, played) /\ run[r].player \in Players
      /\ scored \subseteq {g \in DOMAIN Games : owner[g] # NoOne} /\ alert \subseteq Players
  BY <1>1, OfRun
<1> DEFINE w == Finished(run[r])
<1>3. w \in RunRecords /\ w.player = run[r].player /\ w.held = NoLink
  BY <1>2, LastStep
<1>4. run' = [run EXCEPT ![r] = w] /\ job' = [job EXCEPT ![r] = job[r]]
  BY <1>1, <1>2 DEF GoTo
<1>5. Fits(w, job[r], owner', played)
  BY <1>1, <1>2, FinishedFits
<1>6. Grows(owner, owner') /\ LinksKept
  BY <1>1, OwnersUnchanged, LinksUnchanged
<1>7. abandoned \subseteq abandoned' /\ abandoned' \subseteq Runs /\ r \in abandoned'
  BY <1>1 DEF ImportInv, ImportTypes
<1> HIDE DEF w
<1> QED BY <1>1, <1>2, <1>3, <1>4, <1>5, <1>6, <1>7, RunStepOrEnd

LEMMA ImportInitOK == ImportInit => ImportInv
<1> SUFFICES ASSUME ImportInit PROVE ImportInv
  OBVIOUS
<1> USE DEF ImportInit
<1>1. \A r \in Runs : run[r] = Blank /\ job[r] = [status |-> "none", duplicate |-> FALSE]
  OBVIOUS
<1>2. ImportTypes
  <2>1. 0 \in Times /\ 0 \in 0..MaxStops /\ 0 \in 0..MaxLinks
    BY ImportRecords, LichessImportAssumption DEF Times
  <2>2. job \in [Runs -> JobRecords]
    BY DEF JobRecords
  <2> QED BY <2>1, <2>2, ImportRecords DEF ImportTypes
<1>3. LinksApart
  BY <1>1, ImportRecords DEF LinksApart
<1>4. OneEach /\ ActiveJobsWorkedOn
  BY <1>1 DEF OneEach, ActiveJobsWorkedOn, Active
<1>5. \A p \in Players : Covers(link[p], owner) /\ OfOwnLink(p, link[p], owner)
  BY ImportRecords DEF Covers, OfOwnLink
<1>6. \A r \in Runs : Fits(run[r], job[r], owner, played)
  <2>1. Covers(NoLink, owner)
    BY ImportRecords DEF Covers
  <2> QED BY <1>1, <2>1, ImportRecords DEF Fits
<1> QED BY <1>2, <1>3, <1>4, <1>5, <1>6 DEF ImportInv

\* However imports, links, unlinks, claims and restarts interleave: a player has one
\* active job and one run that works on it, a run holds the row it writes to, and
\* all that its stream is past is stored, for any set of players and accounts, any
\* games and any number of runs.
THEOREM ImportInvariance == ImportSpec => []ImportInv
<1>1. ImportInit => ImportInv
  BY ImportInitOK
<1>2. ImportInv /\ [ImportNext]_importVars => ImportInv'
  <2> SUFFICES ASSUME ImportInv, [ImportNext]_importVars PROVE ImportInv'
    OBVIOUS
  <2>1. CASE PlayGame BY <2>1, PlayGameOK
  <2>2. CASE Stop BY <2>2, StopOK
  <2>3. CASE Start BY <2>3, StartOK
  <2>4. ASSUME NEW h \in Handles, CloseAccount(h) PROVE ImportInv'
    BY <2>4, CloseAccountOK
  <2>5. ASSUME NEW p \in Players, UnlinkAccount(p) PROVE ImportInv'
    BY <2>5, UnlinkOK
  <2>6. ASSUME NEW p \in Players, AnswerAlert(p) PROVE ImportInv'
    BY <2>6, AnswerAlertOK
  <2>7. ASSUME NEW p \in Players, NEW h \in Handles, LinkAccount(p, h) \/ HealLink(p, h) PROVE ImportInv'
    BY <2>7, LinkToOK DEF LinkAccount, HealLink
  <2>8. ASSUME NEW p \in Players, NEW r \in Runs, StartImportJob(p, r) PROVE ImportInv'
    BY <2>8, StartImportJobOK
  <2>9. ASSUME NEW p \in Players, NEW r \in Runs, ImportUserGames(p, r) PROVE ImportInv'
    BY <2>9, ImportUserGamesOK
  <2>10. ASSUME NEW r \in Runs, Work(r) \/ StreamBreaks(r) \/ AnalyzeGame(r) PROVE ImportInv'
    BY <2>10, RunWorkOK
  <2>12. ASSUME NEW r \in Runs, WorkerDies(r) PROVE ImportInv'
    BY <2>12, WorkerDiesOK
  <2>11. CASE UNCHANGED importVars
    BY <2>11 DEF ImportInv, ImportTypes, LinksApart, OneEach, ActiveJobsWorkedOn, importVars,
                 Covers, OfOwnLink, Fits, SeesAll
  <2> QED BY <2>1, <2>2, <2>3, <2>4, <2>5, <2>6, <2>7, <2>8, <2>9, <2>10, <2>11, <2>12 DEF ImportNext
<1> QED BY <1>1, <1>2, PTL DEF ImportSpec

\* A player has one active job, which is worked on unless the database was away when
\* its end was to be written; the watermark a job leaves is of its own link and skips
\* no game that one import can take.
THEOREM ImportIsSafe == ImportSpec => []ImportSafe
<1>1. ImportInv => ImportSafe
  <2> SUFFICES ASSUME ImportInv PROVE ImportSafe
    OBVIOUS
  <2>1. ImportTypeOK
    <3>1. \A r \in Runs : run[r] \in RunRecords /\ job[r] \in JobRecords /\ run[r].todo \subseteq 1..played
      BY OfRun DEF Fits
    <3> QED BY <3>1 DEF ImportTypeOK, ImportInv, ImportTypes, LinksApart, RunRecords, JobRecords
  <2>2. OneActiveJob
    <3> SUFFICES ASSUME NEW p \in Players PROVE Cardinality(ActiveJobs(p)) <= 1
      BY DEF OneActiveJob
    <3>1. \A r, s \in ActiveJobs(p) : r = s
      BY DEF ActiveJobs, ImportInv, OneEach
    <3>2. CASE ActiveJobs(p) = {}
      BY <3>2, FS_EmptySet
    <3>3. CASE ActiveJobs(p) # {}
      <4>1. \E r : ActiveJobs(p) = {r}
        BY <3>1, <3>3
      <4>2. Cardinality(ActiveJobs(p)) = 1
        BY <4>1, FS_Singleton
      <4> QED BY <4>2
    <3> QED BY <3>2, <3>3
  <2>3. WatermarkOfOwnLink
    BY DEF ImportInv, OfOwnLink, WatermarkOfOwnLink
  <2>4. NothingBelowWatermarkMissed
    BY DEF ImportInv, Covers, NothingBelowWatermarkMissed
  <2> QED BY <2>1, <2>2, <2>3, <2>4 DEF ImportSafe, ImportInv
<1> QED BY <1>1, ImportInvariance, PTL

-----------------------------------------------------------------------------
(* Sign in with Lichess (LichessSignIn) *)

\* Codes, identities and requests.
Grants == [code : {"fresh", "used"}, token : {"none", "live", "revoked"}, known : BOOLEAN, tried : BOOLEAN]
Identities == [exists : BOOLEAN, linked : BOOLEAN, imported : BOOLEAN, importing : BOOLEAN]
Visits == [at : {"rest", "exchange", "account", "revoke", "identity", "erased",
                 "link", "kick", "reply", "answered"},
           status : HttpStatuses, signed : BOOLEAN, gone : BOOLEAN]

TokenOfCode(g) == g.token # "none" => g.code = "used"
PlayerFirst(a) == a.linked \/ a.importing => a.exists

\* No token that the server could revoke: outside the two steps between the
\* exchange and the revocation, a request that is not an erasure has none.
NoneToRevoke(g) == g.token # "live" \/ g.tried \/ ~g.known

\* A request and its code, after n outages: a session is committed once the player
\* is known, a player is erased after it, and from there only they or an outage
\* stand between it and its answer.
Carries(c, v, g, n) ==
    /\ TokenOfCode(g)
    /\ v.at \notin {"rest", "exchange", "answered"} => g.code = "used"
    /\ RouteOf[c] # "erase" /\ v.at \notin {"account", "revoke"} => NoneToRevoke(g)
    /\ v.at = "erased" => RouteOf[c] = "erase"
    /\ v.signed => v.at \in {"link", "kick", "reply", "answered"}
    /\ v.gone => v.signed
    /\ v.at = "answered" /\ v.signed => v.status = 200 \/ v.gone \/ n > 0

SignInInv ==
    /\ grant \in [Codes -> Grants] /\ account \in Identities /\ visit \in [Codes -> Visits]
    /\ sends \in 0..MaxSends /\ dbUp \in BOOLEAN /\ outages \in 0..MaxOutages
    /\ ~dbUp => outages > 0
    /\ PlayerFirst(account)
    /\ \A c \in Codes : Carries(c, visit[c], grant[c], outages)

\* A step of one request.
LEMMA VisitStep ==
    ASSUME SignInInv, NEW c \in Codes, NEW v \in Visits, NEW g \in Grants,
           visit' = [visit EXCEPT ![c] = v], grant' = [grant EXCEPT ![c] = g],
           account' \in Identities, PlayerFirst(account'), sends' \in 0..MaxSends,
           UNCHANGED <<dbUp, outages>>, Carries(c, v, g, outages)
    PROVE  SignInInv'
<1>1. grant' \in [Codes -> Grants] /\ visit' \in [Codes -> Visits]
  BY DEF SignInInv
<1>2. \A d \in Codes : Carries(d, visit'[d], grant'[d], outages)
  BY DEF SignInInv
<1> QED BY <1>1, <1>2 DEF SignInInv, PlayerFirst, Carries, TokenOfCode, NoneToRevoke

\* What the invariant says of one request.
LEMMA OfVisit ==
    ASSUME SignInInv, NEW c \in Codes
    PROVE  /\ visit \in [Codes -> Visits] /\ grant \in [Codes -> Grants]
           /\ visit[c] \in Visits /\ grant[c] \in Grants /\ Carries(c, visit[c], grant[c], outages)
           /\ account \in Identities /\ PlayerFirst(account)
           /\ visit' = visit => visit' = [visit EXCEPT ![c] = visit[c]]
           /\ grant' = grant => grant' = [grant EXCEPT ![c] = grant[c]]
           /\ account' = account => account' \in Identities /\ PlayerFirst(account')
           /\ sends' = sends => sends' \in 0..MaxSends
BY DEF SignInInv

\* A request that is answered, with its token or the grant's state settled.
LEMMA AnswerStep ==
    ASSUME SignInInv, NEW c \in Codes, NEW s \in HttpStatuses, Answers(c, s),
           NEW g \in Grants, grant' = [grant EXCEPT ![c] = g], TokenOfCode(g),
           RouteOf[c] # "erase" => NoneToRevoke(g),
           account' \in Identities, PlayerFirst(account'), UNCHANGED <<sends, dbUp, outages>>,
           visit[c].signed => s = 200 \/ visit[c].gone \/ outages > 0
    PROVE  SignInInv'
<1> DEFINE v == [visit[c] EXCEPT !.at = "answered", !.status = s]
<1>1. visit[c] \in Visits /\ Carries(c, visit[c], grant[c], outages) /\ sends' \in 0..MaxSends
  BY OfVisit
<1>2. v \in Visits /\ v.at = "answered" /\ v.status = s /\ v.signed = visit[c].signed
      /\ v.gone = visit[c].gone
  BY <1>1 DEF Visits
<1>3. visit' = [visit EXCEPT ![c] = v]
  BY DEF Answers
<1> HIDE DEF v
<1>4. Carries(c, v, g, outages)
  BY <1>1, <1>2 DEF Carries
<1> QED BY <1>1, <1>2, <1>3, <1>4, VisitStep

\* A request that goes on.
LEMMA MoveStep ==
    ASSUME SignInInv, NEW c \in Codes,
           NEW p \in {"account", "revoke", "identity", "erased", "link", "kick", "reply"},
           visit[c].at # "answered", Moves(c, p),
           NEW g \in Grants, grant' = [grant EXCEPT ![c] = g], TokenOfCode(g), g.code = "used",
           RouteOf[c] # "erase" /\ p \notin {"account", "revoke"} => NoneToRevoke(g),
           p = "erased" => RouteOf[c] = "erase",
           visit[c].signed => p \in {"link", "kick", "reply"},
           account' \in Identities, PlayerFirst(account'), UNCHANGED <<sends, dbUp, outages>>
    PROVE  SignInInv'
<1> DEFINE v == [visit[c] EXCEPT !.at = p]
<1>1. visit[c] \in Visits /\ Carries(c, visit[c], grant[c], outages) /\ sends' \in 0..MaxSends
  BY OfVisit
<1>2. v \in Visits /\ v.at = p /\ v.signed = visit[c].signed /\ v.gone = visit[c].gone
  BY <1>1 DEF Visits
<1>3. visit' = [visit EXCEPT ![c] = v]
  BY DEF Moves
<1> HIDE DEF v
<1>4. Carries(c, v, g, outages)
  BY <1>1, <1>2 DEF Carries
<1> QED BY <1>1, <1>2, <1>3, <1>4, VisitStep

LEMMA SendOK == ASSUME SignInInv, NEW c \in Codes, Send(c) PROVE SignInInv'
<1> DEFINE v == [NoVisit EXCEPT !.at = "exchange"]
<1>1. /\ visit[c].at \in {"rest", "answered"} /\ sends < MaxSends /\ sends' = sends + 1
      /\ visit' = [visit EXCEPT ![c] = v] /\ UNCHANGED <<grant, account, dbUp, outages>>
  BY DEF Send
<1>2. NoVisit \in Visits /\ ~NoVisit.signed /\ ~NoVisit.gone
  BY DEF NoVisit, Visits, HttpStatuses
<1>3. v \in Visits /\ v.at = "exchange" /\ v.signed = NoVisit.signed /\ v.gone = NoVisit.gone
  BY <1>2 DEF Visits
<1>4. sends' \in 0..MaxSends
  BY <1>1, LichessSignInAssumption DEF SignInInv
<1>5. grant[c] \in Grants /\ Carries(c, visit[c], grant[c], outages)
      /\ grant' = [grant EXCEPT ![c] = grant[c]] /\ account' \in Identities /\ PlayerFirst(account')
  BY <1>1, OfVisit
<1> HIDE DEF v
<1>6. Carries(c, v, grant[c], outages)
  BY <1>1, <1>2, <1>3, <1>5 DEF Carries
<1> QED BY <1>1, <1>3, <1>4, <1>5, <1>6, VisitStep

\* What an exchange makes of a code.
LEMMA RedeemedGrant ==
    ASSUME NEW c
    PROVE  /\ Redeemed(c) \in Grants /\ Redeemed(c).code = "used" /\ Redeemed(c).known
           /\ [Redeemed(c) EXCEPT !.known = FALSE] \in Grants
           /\ [Redeemed(c) EXCEPT !.known = FALSE].code = "used"
           /\ ~[Redeemed(c) EXCEPT !.known = FALSE].known
<1>1. Grant \in Grants
  BY DEF Grant, Grants
<1>2. Redeemed(c) \in Grants /\ Redeemed(c).code = "used" /\ Redeemed(c).known
  BY <1>1 DEF Redeemed, Grants
<1> HIDE DEF Redeemed
<1>3. /\ [Redeemed(c) EXCEPT !.known = FALSE] \in Grants
      /\ [Redeemed(c) EXCEPT !.known = FALSE].code = "used"
      /\ ~[Redeemed(c) EXCEPT !.known = FALSE].known
  BY <1>2 DEF Grants
<1> QED BY <1>2, <1>3

LEMMA StatusKnown == \A c \in Codes, t \in {"rejected", "busy", "upstream"} : StatusOf(c, t) \in HttpStatuses
BY DEF StatusOf, HttpStatuses

LEMMA TokenClientOK ==
    ASSUME SignInInv, NEW c \in Codes,
           Exchange(c) \/ ExchangeLost(c) \/ ExchangeFails(c) \/ FetchAccount(c)
              \/ FetchAccountFails(c) \/ RevokeToken(c)
    PROVE  SignInInv'
<1>1. /\ visit[c] \in Visits /\ grant[c] \in Grants /\ Carries(c, visit[c], grant[c], outages)
      /\ grant' = grant => grant' = [grant EXCEPT ![c] = grant[c]]
      /\ account' = account => account' \in Identities /\ PlayerFirst(account')
  BY OfVisit
<1>2. CASE Exchange(c)
  <2>1. /\ visit[c].at = "exchange" /\ grant' = [grant EXCEPT ![c] = Redeemed(c)]
        /\ Moves(c, "account") /\ UNCHANGED <<account, sends, dbUp, outages>>
    BY <1>2 DEF Exchange, Stage, ofVisit
  <2>2. ~visit[c].signed /\ TokenOfCode(Redeemed(c))
    BY <1>1, <2>1, RedeemedGrant DEF Carries, TokenOfCode
  <2> QED BY <1>1, <2>1, <2>2, RedeemedGrant, MoveStep
<1>3. CASE ExchangeLost(c)
  <2> DEFINE g == [Redeemed(c) EXCEPT !.known = FALSE]
  <2>1. /\ visit[c].at = "exchange" /\ grant' = [grant EXCEPT ![c] = g]
        /\ Answers(c, StatusOf(c, "upstream")) /\ UNCHANGED <<account, sends, dbUp, outages>>
    BY <1>3 DEF ExchangeLost, Stage, ofVisit
  <2>2. g \in Grants /\ g.code = "used" /\ ~g.known
    BY RedeemedGrant
  <2> HIDE DEF g
  <2>3. ~visit[c].signed /\ TokenOfCode(g) /\ NoneToRevoke(g) /\ StatusOf(c, "upstream") \in HttpStatuses
    BY <1>1, <2>1, <2>2, StatusKnown DEF Carries, TokenOfCode, NoneToRevoke
  <2> QED BY <1>1, <2>1, <2>2, <2>3, AnswerStep
<1>4. CASE ExchangeFails(c)
  <2>1. visit[c].at = "exchange" /\ UNCHANGED <<grant, account, sends, dbUp, outages>>
    BY <1>4 DEF ExchangeFails, Stage, ofVisit
  <2>2. PICK t \in {"rejected", "busy", "upstream"} : Answers(c, StatusOf(c, t))
    BY <1>4 DEF ExchangeFails
  <2>3. /\ ~visit[c].signed /\ TokenOfCode(grant[c]) /\ StatusOf(c, t) \in HttpStatuses
        /\ RouteOf[c] # "erase" => NoneToRevoke(grant[c])
    BY <1>1, <2>1, StatusKnown DEF Carries
  <2> QED BY <1>1, <2>1, <2>2, <2>3, AnswerStep
<1>5. CASE FetchAccount(c)
  <2>1. /\ visit[c].at = "account" /\ UNCHANGED <<grant, account, sends, dbUp, outages>>
        /\ Moves(c, IF RouteOf[c] = "erase" THEN "identity" ELSE "revoke")
    BY <1>5 DEF FetchAccount, Stage, ofVisit, Moves
  <2>2. ~visit[c].signed /\ TokenOfCode(grant[c]) /\ grant[c].code = "used"
    BY <1>1, <2>1 DEF Carries
  <2> QED BY <1>1, <2>1, <2>2, MoveStep
<1>6. CASE FetchAccountFails(c)
  <2>1. visit[c].at = "account" /\ UNCHANGED <<grant, account, sends, dbUp, outages>>
    BY <1>6 DEF FetchAccountFails, Stage, ofVisit
  <2>2. PICK t \in {"rejected", "busy", "upstream"} : AfterTrouble(c, StatusOf(c, t))
    BY <1>6 DEF FetchAccountFails
  <2>3. /\ ~visit[c].signed /\ ~visit[c].gone /\ TokenOfCode(grant[c])
        /\ StatusOf(c, t) \in HttpStatuses
    BY <1>1, <2>1, StatusKnown DEF Carries
  <2>4. CASE RouteOf[c] = "erase"
    BY <1>1, <2>1, <2>2, <2>3, <2>4, AnswerStep DEF AfterTrouble
  <2>5. CASE RouteOf[c] # "erase"
    <3> DEFINE s == StatusOf(c, t)
               v == [visit[c] EXCEPT !.at = "revoke", !.status = s]
    <3>1. s \in HttpStatuses
      BY <2>3
    <3> HIDE DEF s
    <3>2. v \in Visits /\ v.at = "revoke" /\ v.signed = visit[c].signed /\ v.gone = visit[c].gone
      BY <1>1, <3>1 DEF Visits
    <3>3. visit' = [visit EXCEPT ![c] = v]
      BY <2>2, <2>5 DEF AfterTrouble, s
    <3> HIDE DEF v
    <3>4. Carries(c, v, grant[c], outages) /\ sends' \in 0..MaxSends
      BY <1>1, <2>1, <2>3, <3>2, OfVisit DEF Carries
    <3> QED BY <1>1, <2>1, <3>2, <3>3, <3>4, VisitStep
  <2> QED BY <2>4, <2>5
<1>7. CASE RevokeToken(c)
  <2>1. /\ visit[c].at \in {"revoke", "erased"} /\ UNCHANGED <<account, sends, dbUp, outages>>
        /\ IF visit[c].status # 0 THEN Answers(c, visit[c].status) ELSE Moves(c, "identity")
    BY <1>7 DEF RevokeToken, ofVisit
  <2>2. PICK done \in BOOLEAN :
           grant' = [grant EXCEPT ![c].token = IF done THEN "revoked" ELSE @, ![c].tried = ~done]
    BY <1>7 DEF RevokeToken
  <2> DEFINE g == [grant[c] EXCEPT !.token = IF done THEN "revoked" ELSE @, !.tried = ~done]
  <2>3. (~done) \in BOOLEAN
    OBVIOUS
  <2>4. g \in Grants /\ g.code = grant[c].code /\ (g.token = "revoked" \/ (g.token = grant[c].token /\ g.tried))
    BY <1>1, <2>3 DEF Grants
  <2>5. grant' = [grant EXCEPT ![c] = g]
    BY <2>2
  <2> HIDE DEF g
  <2>6. ~visit[c].signed /\ visit[c].status \in HttpStatuses /\ NoneToRevoke(g)
        /\ visit[c].at # "answered"
    BY <1>1, <2>1, <2>4 DEF Carries, Visits, NoneToRevoke
  <2>7. g.code = "used" /\ TokenOfCode(g)
    BY <1>1, <2>1, <2>4 DEF TokenOfCode, Carries
  <2>8. CASE visit[c].status # 0
    BY <1>1, <2>1, <2>4, <2>5, <2>6, <2>7, <2>8, AnswerStep
  <2>9. CASE visit[c].status = 0
    BY <1>1, <2>1, <2>4, <2>5, <2>6, <2>7, <2>9, MoveStep
  <2> QED BY <2>8, <2>9
<1> QED BY <1>2, <1>3, <1>4, <1>5, <1>6, <1>7

LEMMA RoutesOK ==
    ASSUME SignInInv, NEW c \in Codes,
           Breaks(c) \/ LogIn(c) \/ IdReadFails(c) \/ EnsureLink(c) \/ KickImport(c) \/ Reply(c)
              \/ Link(c) \/ NoOneToErase(c)
    PROVE  SignInInv'
<1>1. /\ visit[c] \in Visits /\ visit \in [Codes -> Visits] /\ grant[c] \in Grants
      /\ Carries(c, visit[c], grant[c], outages)
      /\ grant' = grant => grant' = [grant EXCEPT ![c] = grant[c]]
      /\ account' = account => account' \in Identities /\ PlayerFirst(account')
      /\ account \in Identities /\ PlayerFirst(account) /\ (~dbUp => outages > 0)
  BY OfVisit DEF SignInInv
<1>2. 200 \in HttpStatuses /\ 404 \in HttpStatuses /\ 500 \in HttpStatuses
  BY DEF HttpStatuses
<1>3. CASE Breaks(c)
  <2>1. visit[c].at = "identity" /\ Answers(c, 500) /\ UNCHANGED <<grant, sends, dbUp, outages, account>>
    BY <1>3 DEF Breaks, Stage, others
  <2>2. ~visit[c].signed /\ TokenOfCode(grant[c]) /\ (RouteOf[c] # "erase" => NoneToRevoke(grant[c]))
    BY <1>1, <2>1 DEF Carries
  <2> QED BY <1>1, <1>2, <2>1, <2>2, AnswerStep
<1>4. CASE LogIn(c)
  <2> DEFINE v == [visit[c] EXCEPT !.at = "link", !.signed = TRUE]
             a == [account EXCEPT !.exists = TRUE]
  <2>1. /\ visit[c].at = "identity" /\ visit' = [visit EXCEPT ![c] = v] /\ account' = a
        /\ UNCHANGED <<grant, sends, dbUp, outages>> /\ RouteOf[c] = "signin"
    BY <1>4 DEF LogIn, Stage, others
  <2>2. v \in Visits /\ v.at = "link" /\ v.signed
    BY <1>1 DEF Visits
  <2>3. a \in Identities /\ a.exists
    BY <1>1 DEF Identities
  <2> HIDE DEF v, a
  <2>4. PlayerFirst(a)
    BY <2>3 DEF PlayerFirst
  <2>5. Carries(c, v, grant[c], outages) /\ sends' \in 0..MaxSends
    BY <1>1, <2>1, <2>2, OfVisit DEF Carries
  <2> QED BY <1>1, <2>1, <2>2, <2>3, <2>4, <2>5, VisitStep
<1>5. CASE IdReadFails(c)
  <2>1. /\ visit[c].at \in {"link", "kick", "reply"} /\ Answers(c, 500) /\ (~dbUp \/ visit[c].gone)
        /\ UNCHANGED <<grant, sends, dbUp, outages, account>>
    BY <1>5 DEF IdReadFails, others
  <2>2. TokenOfCode(grant[c]) /\ (RouteOf[c] # "erase" => NoneToRevoke(grant[c]))
    BY <1>1, <2>1 DEF Carries
  <2> QED BY <1>1, <1>2, <2>1, <2>2, AnswerStep
<1>6. CASE EnsureLink(c)
  <2> DEFINE l == account.linked \/ (account.exists /\ ~visit[c].gone)
             a == [account EXCEPT !.linked = l]
  <2>1. /\ visit[c].at = "link" /\ Moves(c, "kick") /\ account' \in {account, a}
        /\ UNCHANGED <<grant, sends, dbUp, outages>>
    BY <1>6 DEF EnsureLink, LinkFailed, Stage, others
  <2>2. l \in BOOLEAN /\ (l => account.exists)
    BY <1>1 DEF PlayerFirst
  <2> HIDE DEF l
  <2>3. a \in Identities /\ a.linked = l /\ a.importing = account.importing /\ a.exists = account.exists
    BY <1>1, <2>2 DEF Identities
  <2> HIDE DEF a
  <2>4. account' \in Identities /\ PlayerFirst(account')
    BY <1>1, <2>1, <2>2, <2>3 DEF PlayerFirst
  <2>5. TokenOfCode(grant[c]) /\ grant[c].code = "used" /\ (RouteOf[c] # "erase" => NoneToRevoke(grant[c]))
    BY <1>1, <2>1 DEF Carries
  <2> QED BY <1>1, <2>1, <2>4, <2>5, MoveStep
<1>7. CASE KickImport(c)
  <2> DEFINE i == account.importing \/ Kicked
             a == [account EXCEPT !.importing = i]
  <2>1. /\ visit[c].at = "kick" /\ Moves(c, "reply") /\ account' \in {account, a}
        /\ UNCHANGED <<grant, sends, dbUp, outages>>
    BY <1>7 DEF KickImport, Stage, others
  <2>2. i \in BOOLEAN /\ (i => account.exists)
    BY <1>1 DEF PlayerFirst, Kicked
  <2> HIDE DEF i
  <2>3. a \in Identities /\ a.linked = account.linked /\ a.importing = i /\ a.exists = account.exists
    BY <1>1, <2>2 DEF Identities
  <2> HIDE DEF a
  <2>4. account' \in Identities /\ PlayerFirst(account')
    BY <1>1, <2>1, <2>2, <2>3 DEF PlayerFirst
  <2>5. TokenOfCode(grant[c]) /\ grant[c].code = "used" /\ (RouteOf[c] # "erase" => NoneToRevoke(grant[c]))
    BY <1>1, <2>1 DEF Carries
  <2> QED BY <1>1, <2>1, <2>4, <2>5, MoveStep
<1>8. CASE Reply(c)
  <2>1. visit[c].at = "reply" /\ Answers(c, 200) /\ UNCHANGED <<grant, sends, dbUp, outages, account>>
    BY <1>8 DEF Reply, Stage, others
  <2>2. TokenOfCode(grant[c]) /\ (RouteOf[c] # "erase" => NoneToRevoke(grant[c]))
    BY <1>1, <2>1 DEF Carries
  <2> QED BY <1>1, <1>2, <2>1, <2>2, AnswerStep
<1>9. CASE Link(c)
  <2> DEFINE a == [account EXCEPT !.linked = account.exists]
  <2>1. /\ visit[c].at = "identity" /\ Answers(c, IF account.exists THEN 200 ELSE 500) /\ account' = a
        /\ UNCHANGED <<grant, sends, dbUp, outages>>
    BY <1>9 DEF Link, Stage, others
  <2>2. account.exists \in BOOLEAN
    BY <1>1 DEF Identities
  <2>3. a \in Identities /\ a.linked = account.exists /\ a.importing = account.importing
        /\ a.exists = account.exists
    BY <1>1, <2>2 DEF Identities
  <2> HIDE DEF a
  <2>4. PlayerFirst(a) /\ ~visit[c].signed /\ TokenOfCode(grant[c])
        /\ (RouteOf[c] # "erase" => NoneToRevoke(grant[c]))
    BY <1>1, <2>1, <2>3 DEF PlayerFirst, Carries
  <2> QED BY <1>1, <1>2, <2>1, <2>3, <2>4, AnswerStep
<1>10. CASE NoOneToErase(c)
  <2>1. PICK s \in HttpStatuses : s = 404
    BY <1>2
  <2> DEFINE v == [visit[c] EXCEPT !.at = "erased", !.status = s]
  <2>2. /\ visit[c].at = "identity" /\ RouteOf[c] = "erase"
        /\ visit' = [visit EXCEPT ![c].at = "erased", ![c].status = s]
        /\ UNCHANGED <<grant, sends, dbUp, outages, account>>
    BY <1>10, <2>1 DEF NoOneToErase, Stage, others
  <2>3. visit' = [visit EXCEPT ![c] = v]
    BY <2>2
  <2>4. v \in Visits /\ v.at = "erased" /\ v.signed = visit[c].signed /\ v.gone = visit[c].gone
    BY <1>1 DEF Visits
  <2> HIDE DEF v
  <2>5. Carries(c, v, grant[c], outages) /\ sends' \in 0..MaxSends
    BY <1>1, <2>2, <2>4, OfVisit DEF Carries
  <2> QED BY <1>1, <2>2, <2>3, <2>4, <2>5, VisitStep
<1> QED BY <1>3, <1>4, <1>5, <1>6, <1>7, <1>8, <1>9, <1>10

LEMMA NobodyThere == Nobody \in Identities /\ PlayerFirst(Nobody)
                     /\ \A a \in {Nobody, [Nobody EXCEPT !.exists = TRUE, !.linked = TRUE]} :
                            a \in Identities /\ PlayerFirst(a)
<1>1. Nobody \in Identities /\ ~Nobody.linked /\ ~Nobody.importing
  BY DEF Nobody, Identities
<1> DEFINE a == [Nobody EXCEPT !.exists = TRUE, !.linked = TRUE]
<1>2. a \in Identities /\ a.exists
  BY <1>1 DEF Identities
<1> HIDE DEF a
<1> QED BY <1>1, <1>2 DEF PlayerFirst, a

LEMMA EraseOK == ASSUME SignInInv, NEW c \in Codes, Erase(c) PROVE SignInInv'
<1> DEFINE mine == [visit[c] EXCEPT !.at = "erased", !.status = 200]
           other(d) == [visit[d] EXCEPT !.gone = visit[d].signed]
<1>1. /\ visit[c].at = "identity" /\ RouteOf[c] = "erase" /\ account' = Nobody
      /\ visit' = [d \in Codes |-> IF d = c THEN mine ELSE other(d)]
      /\ UNCHANGED <<grant, sends, dbUp, outages>>
  BY DEF Erase, Stage, others
<1>2. visit[c] \in Visits /\ 200 \in HttpStatuses /\ Carries(c, visit[c], grant[c], outages)
  BY OfVisit DEF HttpStatuses
<1>3. /\ mine \in Visits /\ mine.at = "erased" /\ mine.signed = visit[c].signed
      /\ mine.gone = visit[c].gone
  BY <1>2 DEF Visits
<1>4. ASSUME NEW d \in Codes
      PROVE /\ other(d) \in Visits /\ other(d).at = visit[d].at /\ other(d).signed = visit[d].signed
            /\ other(d).gone = visit[d].signed /\ other(d).status = visit[d].status
  <2>1. visit[d] \in Visits /\ visit[d].signed \in BOOLEAN
    BY OfVisit DEF Visits
  <2> QED BY <2>1 DEF Visits
<1> HIDE DEF mine, other
<1>5. Carries(c, mine, grant[c], outages)
  BY <1>1, <1>2, <1>3 DEF Carries
<1>6. \A d \in Codes : Carries(d, other(d), grant[d], outages)
  BY <1>4, OfVisit DEF Carries
<1>7. visit' \in [Codes -> Visits]
  BY <1>1, <1>3, <1>4
<1>8. \A d \in Codes : Carries(d, visit'[d], grant[d], outages)
  BY <1>1, <1>5, <1>6
<1> QED BY <1>1, <1>7, <1>8, NobodyThere
        DEF SignInInv, PlayerFirst, Carries, TokenOfCode, NoneToRevoke

LEMMA AroundOK ==
    ASSUME SignInInv, Me \/ ImportEnds \/ DatabaseGoes \/ DatabaseReturns PROVE SignInInv'
<1>1. account \in Identities /\ PlayerFirst(account) /\ MaxOutages \in Nat
      /\ \A c \in Codes : Carries(c, visit[c], grant[c], outages)
  BY LichessSignInAssumption DEF SignInInv
<1>2. ASSUME NEW a \in Identities, PlayerFirst(a), account' = a,
             UNCHANGED <<visit, grant, sends, dbUp, outages>>
      PROVE SignInInv'
  BY <1>2 DEF SignInInv, PlayerFirst, Carries, TokenOfCode, NoneToRevoke
<1>3. CASE Me
  <2> DEFINE a == [account EXCEPT !.importing = TRUE]
  <2>1. account' = a /\ account.exists /\ UNCHANGED <<visit, grant, sends, dbUp, outages>>
    BY <1>3 DEF Me, others
  <2>2. a \in Identities /\ a.exists = account.exists
    BY <1>1 DEF Identities
  <2> HIDE DEF a
  <2> QED BY <1>2, <2>1, <2>2 DEF PlayerFirst
<1>4. CASE ImportEnds
  <2>1. PICK some \in BOOLEAN :
           account' = [account EXCEPT !.importing = FALSE, !.imported = @ \/ some]
    BY <1>4 DEF ImportEnds
  <2> DEFINE i == account.imported \/ some
             a == [account EXCEPT !.importing = FALSE, !.imported = i]
  <2>2. account' = a /\ UNCHANGED <<visit, grant, sends, dbUp, outages>> /\ i \in BOOLEAN
    BY <1>4, <2>1 DEF ImportEnds, others
  <2> HIDE DEF i
  <2>3. a \in Identities /\ a.exists = account.exists /\ a.linked = account.linked /\ ~a.importing
    BY <1>1, <2>2 DEF Identities
  <2> HIDE DEF a
  <2> QED BY <1>1, <1>2, <2>2, <2>3 DEF PlayerFirst
<1>5. CASE DatabaseGoes
  <2>1. /\ outages < MaxOutages /\ dbUp' = FALSE /\ outages' = outages + 1
        /\ UNCHANGED <<grant, account, visit, sends>> /\ outages \in 0..MaxOutages
    BY <1>5 DEF DatabaseGoes, SignInInv
  <2>2. outages' \in 0..MaxOutages /\ outages' > 0
    BY <1>1, <2>1
  <2>3. \A c \in Codes : Carries(c, visit[c], grant[c], outages')
    BY <1>1, <2>2 DEF Carries
  <2> QED BY <2>1, <2>2, <2>3 DEF SignInInv, PlayerFirst, Carries, TokenOfCode, NoneToRevoke
<1>6. CASE DatabaseReturns
  <2>1. dbUp' = TRUE /\ UNCHANGED <<grant, account, visit, sends, outages>>
    BY <1>6 DEF DatabaseReturns
  <2> QED BY <2>1 DEF SignInInv, PlayerFirst, Carries, TokenOfCode, NoneToRevoke
<1> QED BY <1>3, <1>4, <1>5, <1>6

LEMMA ProcessEndsOK == ASSUME SignInInv, ProcessEnds PROVE SignInInv'
<1> DEFINE g(c) == [grant[c] EXCEPT !.known = FALSE]
           a == [account EXCEPT !.importing = FALSE]
<1>1. /\ visit' = [c \in Codes |-> IF visit[c].at = "answered" THEN visit[c] ELSE NoVisit]
      /\ grant' = [c \in Codes |-> IF visit[c].at = "answered" THEN grant[c] ELSE g(c)]
      /\ account' = a /\ UNCHANGED <<sends, dbUp, outages>>
  BY DEF ProcessEnds
<1>2. NoVisit \in Visits /\ ~NoVisit.signed /\ ~NoVisit.gone /\ NoVisit.at = "rest"
  BY DEF NoVisit, Visits, HttpStatuses
<1>3. ASSUME NEW c \in Codes
      PROVE g(c) \in Grants /\ ~g(c).known /\ g(c).code = grant[c].code /\ g(c).token = grant[c].token
  <2>1. grant[c] \in Grants
    BY OfVisit
  <2> QED BY <2>1 DEF Grants
<1>4. /\ a \in Identities /\ ~a.importing /\ a.linked = account.linked /\ a.exists = account.exists
      /\ PlayerFirst(account)
  BY DEF SignInInv, Identities
<1> HIDE DEF g, a
<1>5. PlayerFirst(a)
  BY <1>4 DEF PlayerFirst
<1>6. ASSUME NEW c \in Codes
      PROVE visit'[c] \in Visits /\ grant'[c] \in Grants /\ Carries(c, visit'[c], grant'[c], outages)
  <2>1. visit[c] \in Visits /\ grant[c] \in Grants /\ Carries(c, visit[c], grant[c], outages)
    BY OfVisit
  <2>2. CASE visit[c].at = "answered"
    BY <1>1, <2>1, <2>2
  <2>3. CASE visit[c].at # "answered"
    <3>1. visit'[c] = NoVisit /\ grant'[c] = g(c)
      BY <1>1, <2>3
    <3> QED BY <1>2, <1>3, <2>1, <3>1 DEF Carries, TokenOfCode, NoneToRevoke
  <2> QED BY <2>2, <2>3
<1>7. visit' \in [Codes -> Visits] /\ grant' \in [Codes -> Grants]
  BY <1>1, <1>6
<1> QED BY <1>1, <1>4, <1>5, <1>6, <1>7
        DEF SignInInv, PlayerFirst, Carries, TokenOfCode, NoneToRevoke

\* However requests with codes overlap, fail and are sent again, and wherever the
\* process ends: what each of them still has to do, for any set of codes.
THEOREM SignInInvariance == SignInSpec => []SignInInv
<1>1. SignInInit => SignInInv
  <2> SUFFICES ASSUME SignInInit PROVE SignInInv
    OBVIOUS
  <2>1. Grant \in Grants /\ Grant.token = "none"
    BY DEF Grant, Grants
  <2>2. NoVisit \in Visits /\ ~NoVisit.signed /\ ~NoVisit.gone /\ NoVisit.at = "rest"
    BY DEF NoVisit, Visits, HttpStatuses
  <2>3. \A c \in Codes : Carries(c, NoVisit, Grant, 0)
    BY <2>1, <2>2 DEF Carries, TokenOfCode, NoneToRevoke
  <2>4. account \in Identities /\ PlayerFirst(account)
    BY NobodyThere DEF SignInInit
  <2>5. 0 \in 0..MaxSends /\ 0 \in 0..MaxOutages
    BY LichessSignInAssumption
  <2> QED BY <2>1, <2>2, <2>3, <2>4, <2>5 DEF SignInInit, SignInInv
<1>2. SignInInv /\ [SignInNext]_signInVars => SignInInv'
  <2> SUFFICES ASSUME SignInInv, [SignInNext]_signInVars PROVE SignInInv'
    OBVIOUS
  <2>1. ASSUME NEW c \in Codes, Send(c) PROVE SignInInv'
    BY <2>1, SendOK
  <2>2. ASSUME NEW c \in Codes,
               Exchange(c) \/ ExchangeLost(c) \/ ExchangeFails(c) \/ FetchAccount(c)
                  \/ FetchAccountFails(c) \/ RevokeToken(c)
        PROVE SignInInv'
    BY <2>2, TokenClientOK
  <2>3. ASSUME NEW c \in Codes,
               Breaks(c) \/ LogIn(c) \/ IdReadFails(c) \/ EnsureLink(c) \/ KickImport(c) \/ Reply(c)
                  \/ Link(c) \/ NoOneToErase(c)
        PROVE SignInInv'
    BY <2>3, RoutesOK
  <2>4. ASSUME NEW c \in Codes, Erase(c) PROVE SignInInv'
    BY <2>4, EraseOK
  <2>5. CASE Me \/ ImportEnds \/ DatabaseGoes \/ DatabaseReturns
    BY <2>5, AroundOK
  <2>6. CASE ProcessEnds
    BY <2>6, ProcessEndsOK
  <2>7. CASE UNCHANGED signInVars
    BY <2>7 DEF SignInInv, signInVars, PlayerFirst, Carries, TokenOfCode, NoneToRevoke
  <2> QED BY <2>1, <2>2, <2>3, <2>4, <2>5, <2>6, <2>7 DEF SignInNext
<1> QED BY <1>1, <1>2, PTL DEF SignInSpec

\* A sign-in is served once its session exists, and leaves no token behind.
THEOREM SignInIsSafe == SignInSpec => []SignInSafe
<1>1. SignInInv => SignInSafe
  <2> SUFFICES ASSUME SignInInv PROVE SignInSafe
    OBVIOUS
  <2>1. \A c \in Codes : Carries(c, visit[c], grant[c], outages)
    BY DEF SignInInv
  <2>2. SignInTypeOK
    BY <2>1 DEF SignInTypeOK, SignInInv, Grants, Identities, Visits, Carries, TokenOfCode, PlayerFirst
  <2>3. NoTokenLeft
    BY <2>1 DEF NoTokenLeft, Carries, NoneToRevoke
  <2>4. SignedInIsServed
    BY <2>1 DEF SignedInIsServed, Carries
  <2> QED BY <2>2, <2>3, <2>4 DEF SignInSafe
<1> QED BY <1>1, SignInInvariance, PTL

=============================================================================
