----------------------------- MODULE GameReview -----------------------------
(***************************************************************************)
(* The review job of one imported game (llm/seca/review): POST             *)
(* /game/{event_id}/review creates, coalesces, requeues or retries the     *)
(* game_reviews row and dispatches a worker, which runs the engine stage   *)
(* and the coach-text stage with a commit after each.  A step ends at a    *)
(* commit or at a read whose result is used later; requests, workers and a *)
(* stop of the process interleave between steps.                           *)
(*                                                                         *)
(* SQLAlchemy writes the attributes that differ from the copy a session    *)
(* holds, so a worker keeps the status it read or wrote last.              *)
(***************************************************************************)
EXTENDS Naturals, FiniteSets

CONSTANTS Posts,          \* POST requests, each made once
          MaxReviewStops  \* bound on crashes of the process

ASSUME GameReviewAssumption == IsFiniteSet(Posts) /\ MaxReviewStops \in Nat

Outcomes == {"full", "fallback", "skipped_entitlement"}
ActiveReview == {"queued", "running", "engine_done"}       \* REVIEW_STATUS_ACTIVE
Statuses == ActiveReview \union {"none", "failed", "complete"}

VARIABLES
    serving,  \* the server process is running
    halts,    \* how often it has stopped
    review,   \* the row: status, whether engine_json is there, the llm_json outcome
    blocked,  \* the import_analysis entitlement refuses the game
    post,     \* post[q]: where request q is
    worker,   \* worker[q]: the worker that request q dispatched
    raced,    \* history: a request read the row while another was about to write it
    stranded  \* history: an active row kept its status because the database was away
              \* when a worker that raised ("by_worker") or the janitor ("by_boot")
              \* had to change it

reviewVars == <<serving, halts, review, blocked, post, worker, raced, stranded>>

NoReview == [status |-> "none", engine |-> FALSE, outcome |-> "none"]
Off == [pc |-> "off", held |-> "none"]
Alive == {q \in Posts : worker[q].pc # "off"}

\* Types, and: engine results are there whenever the status says so.
ReviewTypeOK ==
    /\ serving \in BOOLEAN /\ halts \in 0..MaxReviewStops
    /\ review \in [status : Statuses, engine : BOOLEAN, outcome : Outcomes \union {"none"}]
    /\ review.status \in {"engine_done", "complete"} => review.engine
    /\ blocked \in BOOLEAN /\ raced \in BOOLEAN
    /\ stranded \in {"no", "by_worker", "by_boot"}
    /\ post \in [Posts -> {"unsent", "insert", "requeue", "retry", "answered"}]
    /\ worker \in [Posts -> [pc : {"off", "dispatched", "picked", "engine", "texts", "finishing"},
                             held : Statuses]]

ReviewInit ==
    /\ serving = TRUE /\ halts = 0
    /\ review = NoReview
    /\ blocked = FALSE
    /\ post = [q \in Posts |-> "unsent"]
    /\ worker = [q \in Posts |-> Off]
    /\ raced = FALSE /\ stranded = "no"

-----------------------------------------------------------------------------
(* POST /game/{event_id}/review of an eligible game *)

AboutToWrite == {q \in Posts : post[q] \in {"insert", "requeue", "retry"}}

\* Mutated form of Disposition: a full outcome is retried like the others.
DispositionAnyOutcome ==
    CASE review.status = "none" -> "insert"
      [] review.status \in ActiveReview -> "answered"
      [] review.status = "failed" -> "requeue"
      [] review.status = "complete" -> "retry"

\* Mutated form of Disposition: a row in progress is started again.
DispositionRestarts ==
    CASE review.status = "none" -> "insert"
      [] review.status \in ActiveReview \cup {"failed"} -> "requeue"
      [] review.status = "complete" -> "answered"

\* What start_review makes of the row it finds.
Disposition ==
    CASE review.status = "none" -> "insert"
      [] review.status \in ActiveReview -> "answered"
      [] review.status = "failed" -> "requeue"
      [] review.status = "complete" ->
           IF review.outcome = "full" \/ (review.outcome = "skipped_entitlement" /\ blocked)
           THEN "answered" ELSE "retry"

ReadReview(q) ==
    /\ serving /\ post[q] = "unsent"
    /\ post' = [post EXCEPT ![q] = Disposition]
    /\ raced' = (raced \/ (AboutToWrite # {} /\ post'[q] # "answered"))
    /\ UNCHANGED <<serving, halts, review, blocked, worker, stranded>>

Dispatch(q) == worker' = [worker EXCEPT ![q].pc = "dispatched"]
PostAnswered(q) == post' = [post EXCEPT ![q] = "answered"]

\* The unique key refuses a second row: the loser coalesces.
InsertReview(q) ==
    /\ serving /\ post[q] = "insert"
    /\ IF review.status = "none"
       THEN review' = [NoReview EXCEPT !.status = "queued"] /\ Dispatch(q)
       ELSE UNCHANGED <<review, worker>>
    /\ PostAnswered(q)
    /\ UNCHANGED <<serving, halts, blocked, raced, stranded>>

\* A failed row is queued again; a complete one goes back to its third wave.
RequeueStatus(q) ==
    [review EXCEPT !.status = IF post[q] = "requeue" THEN "queued" ELSE "engine_done"]

Requeue(q) ==
    /\ serving /\ post[q] \in {"requeue", "retry"}
    /\ review' = RequeueStatus(q)
    /\ Dispatch(q) /\ PostAnswered(q)
    /\ UNCHANGED <<serving, halts, blocked, raced, stranded>>

-----------------------------------------------------------------------------
(* run_review_job *)

StageStep(q, from, to, held) ==
    /\ serving /\ worker[q].pc = from
    /\ worker' = [worker EXCEPT ![q] =
           IF to = "off" THEN Off ELSE [pc |-> to, held |-> held]]
    /\ UNCHANGED <<serving, halts, blocked, post, raced>>

Step(q, from, to, held) == StageStep(q, from, to, held) /\ UNCHANGED stranded

\* The UPDATE of a status that differs from the held one.
SetStatus(q, status) ==
    IF worker[q].held = status THEN review ELSE [review EXCEPT !.status = status]

PickUpReview(q) ==
    /\ Step(q, "dispatched",
            IF review.status = "failed" THEN "off"
            ELSE IF review.engine THEN "texts" ELSE "picked", review.status)
    /\ UNCHANGED review

\* _run_engine_stage.
StartEngine(q) ==
    /\ Step(q, "picked", "engine", "running")
    /\ review' = SetStatus(q, "running")

EngineDone(q) ==
    /\ Step(q, "engine", "texts", "engine_done")
    /\ review' = [review EXCEPT !.status = "engine_done", !.engine = TRUE]

\* No pool, a saturated pool, a PGN the recompute cannot analyze.
EngineFails(q) ==
    /\ Step(q, "engine", "off", "failed")
    /\ review' = SetStatus(q, "failed")

\* _run_llm_stage: the entitlement, then the texts or their fallback.
WriteTexts(q, outcome) ==
    /\ (outcome = "skipped_entitlement") = blocked
    /\ Step(q, "texts", "finishing", worker[q].held)
    /\ review' = [review EXCEPT !.outcome = outcome]

\* An unexpected exception, the database's included: the row is read again and
\* fails unless complete.  Marking it is best effort: when that raises too, the
\* worker is gone and the row stays as it is.
WorkerRaises(q) ==
    /\ \E pc \in {"dispatched", "picked", "engine", "texts", "finishing"} :
          StageStep(q, pc, "off", "failed")
    /\ \/ /\ review' = IF review.status = "complete" THEN review
                        ELSE [review EXCEPT !.status = "failed"]
          /\ UNCHANGED stranded
       \/ /\ UNCHANGED review
          /\ stranded' = IF review.status \in ActiveReview THEN "by_worker" ELSE stranded

CompleteReview(q) ==
    /\ Step(q, "finishing", "off", "complete")
    /\ review' = SetStatus(q, "complete")

ReviewWork(q) ==
    \/ PickUpReview(q) \/ StartEngine(q) \/ EngineDone(q)
    \/ \E outcome \in Outcomes : WriteTexts(q, outcome)
    \/ CompleteReview(q)

-----------------------------------------------------------------------------
(* The process and the quota *)

Halt ==
    /\ serving /\ halts < MaxReviewStops
    /\ serving' = FALSE /\ halts' = halts + 1
    /\ worker' = [q \in Posts |-> Off]
    /\ post' = [q \in Posts |-> IF q \in AboutToWrite THEN "answered" ELSE post[q]]
    /\ UNCHANGED <<review, blocked, raced, stranded>>

\* cleanup_stale_reviews_on_startup: what has nothing to show fails, what has
\* engine results is completed with the fallback texts.
Swept ==
    CASE review.status \in {"queued", "running"} -> [review EXCEPT !.status = "failed"]
      [] review.status = "engine_done" -> [review EXCEPT !.status = "complete", !.outcome = "fallback"]
      [] OTHER -> review

\* The lifespan swallows what the janitors raise, and serves.
Reboot ==
    /\ ~serving
    /\ serving' = TRUE
    /\ \/ review' = Swept /\ stranded' = "no"
       \/ UNCHANGED review /\ stranded' = IF review.status \in ActiveReview THEN "by_boot" ELSE "no"
    /\ UNCHANGED <<halts, blocked, post, worker, raced>>

\* The window rolls on, or other games use the quota up.
QuotaChanges ==
    /\ blocked' = ~blocked
    /\ UNCHANGED <<serving, halts, review, post, worker, raced, stranded>>

ReviewNext ==
    \/ Halt \/ Reboot \/ QuotaChanges
    \/ \E q \in Posts :
         \/ ReadReview(q) \/ InsertReview(q) \/ Requeue(q)
         \/ ReviewWork(q) \/ EngineFails(q) \/ WorkerRaises(q)

ReviewSpec == ReviewInit /\ [][ReviewNext]_reviewVars

\* Executor threads run, and a stopped process is started again.
ReviewFairness ==
    WF_reviewVars(Reboot) /\ \A q \in Posts : WF_reviewVars(ReviewWork(q))

-----------------------------------------------------------------------------
(* Properties *)

\* A review in an active state has a worker, or the process is down and the
\* janitor will deal with it, whatever raised, stopped or was retried: no client
\* polls a row nobody advances, unless the database was away at the very moment
\* a worker that raised or the janitor had to write the row's end.
ActiveReviewWorkedOn ==
    serving /\ review.status \in ActiveReview /\ stranded = "no" => Alive # {}

\* start_review 150-190: as long as no two requests overlap, a row never has
\* two workers, whatever fails, stops or is retried.
OneWorker == ~raced => Cardinality(Alive) <= 1

\* "re-run Wave 3 only": the engine never runs for a row that has its results,
\* again as long as no two requests overlap.
RetriesSkipEngine == ~raced /\ review.engine => \A q \in Posts : worker[q].pc # "engine"

\* "A full LLM outcome is served as-is": as long as no two requests overlap,
\* nothing changes a review that is complete with all its coach texts.  Before
\* it is complete, a crash lets the janitor put fallbacks in their place.
FullReviewKept ==
    [][~raced' /\ review.status = "complete" /\ review.outcome = "full"
          => review' = review]_reviewVars

\* Every review a client polls reaches a terminal state, in this process or at
\* its next start, unless the database was away when that state was written.
ReviewsEnd == review.status \in ActiveReview ~>
    review.status \notin ActiveReview \/ stranded # "no"

\* A review that clients poll has its one worker, which does nothing twice.
ReviewSafe == ReviewTypeOK /\ ActiveReviewWorkedOn /\ OneWorker /\ RetriesSkipEngine
=============================================================================
