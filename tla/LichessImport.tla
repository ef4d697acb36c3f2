---------------------------- MODULE LichessImport ----------------------------
(***************************************************************************)
(* Lichess links and import jobs: llm/seca/lichess.  Links are made,       *)
(* claimed and removed by requests; an import is a v2 job, whose worker    *)
(* runs in a thread pool, or a v1 request that runs the same stream        *)
(* without a job row.  A step of a run ends at a commit, or at a read      *)
(* whose result is used after another one; runs and requests interleave    *)
(* between steps.  The process may stop at any time; its next start sweeps *)
(* the jobs.  Of the notification feed, which NotificationFeed models row  *)
(* by row, only whether a live Lichess alert exists is kept here.          *)
(*                                                                         *)
(* A game is its place in the order of creation, which is also the         *)
(* timestamp the watermark takes from it, and 0 is no watermark.  The      *)
(* unique key (source, external_game_id) of game_events gives a game one   *)
(* row, owned by one player.  The database is Postgres, whose partial      *)
(* index admits one active job for each player.                            *)
(***************************************************************************)
EXTENDS Naturals, Sequences, FiniteSets

CONSTANTS Players,
          Handles,    \* Lichess accounts
          Proves(_),  \* the accounts whose ownership a player can prove
          Registered(_), \* the account a player has signed up with, if any: a set
          Games,      \* Games[g]: the accounts that play the g-th game
          Unusable,   \* games whose PGN is empty, too large or does not parse
          MaxGames,   \* max_games of an import
          Kinds,      \* "job" for the v2 path, "sync" for v1
          MaxRuns,    \* bound on imports
          MaxLinks,   \* bound on link rows ever inserted
          MaxStops,   \* bound on crashes of the process
          MaxClosed,  \* bound on accounts closed at Lichess
          NoOne

ASSUME LichessImportAssumption ==
    /\ Kinds \subseteq {"job", "sync"}
    /\ \A p \in Players : Registered(p) \subseteq Proves(p)
    /\ Unusable \subseteq DOMAIN Games
    /\ Games \in Seq(SUBSET Handles)
    /\ MaxGames \in Nat \ {0}
    /\ MaxRuns \in Nat /\ MaxLinks \in Nat /\ MaxStops \in Nat
    /\ NoOne \notin Players \union Handles

VARIABLES
    up,       \* the server process is running
    stops,    \* how often it has stopped
    links,    \* link rows ever inserted: their ids
    link,     \* link[p]: the player's linked_accounts row
    played,   \* games played so far
    gone,     \* accounts Lichess answers 404 for
    owner,    \* owner[g]: the player whose game_events row holds the game
    scored,   \* games the engine pass has scored
    job,      \* job[r]: the lichess_import_jobs row of run r
    run,      \* run[r]: the worker or request that executes run r
    alert,    \* players with an undismissed reconnect alert
    answering, \* requests between the commit of a link or unlink and resolve
    abandoned \* history: runs whose job kept its active status because the database
              \* was away when their worker, or the janitor, had to write its end

importVars == <<up, stops, links, link, played, gone, owner, scored, job, run, alert, answering,
                abandoned>>

Runs == 1..MaxRuns
Times == 0..Len(Games)
NoLink == [id |-> 0, handle |-> NoOne, watermark |-> 0, disconnected |-> FALSE]
Active == {"queued", "running"}  \* JOB_STATUS_ACTIVE
Resting == {"unused", "done"}

LinkRows == [id : 1..MaxLinks, handle : Handles, watermark : Times, disconnected : BOOLEAN]
Blank == [pc |-> "unused", player |-> NoOne, held |-> NoLink, todo |-> {}, known |-> {},
          newest |-> 0]

ImportTypeOK ==
    /\ up \in BOOLEAN /\ stops \in 0..MaxStops /\ links \in 0..MaxLinks
    /\ link \in [Players -> LinkRows \union {NoLink}]
    /\ \A p, q \in Players : link[p].handle = link[q].handle => p = q \/ link[p] = NoLink
    /\ played \in Times /\ gone \subseteq Handles
    /\ owner \in [DOMAIN Games -> Players \union {NoOne}]
    /\ scored \subseteq {g \in DOMAIN Games : owner[g] # NoOne}
    /\ \A r \in Runs :
         /\ job[r].status \in {"none", "succeeded", "failed"} \union Active
         /\ run[r].player \in Players \union {NoOne}
         /\ run[r].todo \subseteq 1..played
    /\ alert \subseteq Players /\ answering \subseteq Players /\ abandoned \subseteq Runs

ImportInit ==
    /\ up = TRUE /\ stops = 0 /\ links = 0
    /\ link = [p \in Players |-> NoLink]
    /\ played = 0 /\ gone = {}
    /\ owner = [g \in DOMAIN Games |-> NoOne]
    /\ scored = {}
    /\ job = [r \in Runs |-> [status |-> "none", duplicate |-> FALSE]]
    /\ run = [r \in Runs |-> Blank]
    /\ alert = {} /\ answering = {} /\ abandoned = {}

-----------------------------------------------------------------------------
(* Lichess *)

PlayGame ==
    /\ played < Len(Games)
    /\ played' = played + 1
    /\ UNCHANGED <<up, stops, links, link, gone, owner, scored, job, run, alert, answering, abandoned>>

CloseAccount(h) ==
    /\ h \notin gone /\ Cardinality(gone) < MaxClosed
    /\ gone' = gone \union {h}
    /\ UNCHANGED <<up, stops, links, link, played, owner, scored, job, run, alert, answering, abandoned>>

\* The answer to a games request: the newest games of the account that are
\* later than `since`, at most max of them.
FetchUserGames(h, since) ==
    LET new == {g \in since + 1..played : h \in Games[g]}
    IN  {g \in new : Cardinality({x \in new : x > g}) < MaxGames}

-----------------------------------------------------------------------------
(* Link and unlink *)

\* Of the error of a failed job, whether the unique key refused a game.
Failed == [status |-> "failed", duplicate |-> FALSE]

\* The active jobs of some players fail: unlinked, claimed or restarted.
FailActive(owners) ==
    [r \in Runs |-> IF run[r].player \in owners /\ job[r].status \in Active
                    THEN Failed ELSE job[r]]

Holders(h) == {p \in Players : link[p].handle = h}

\* The handle moves to the player's new row.
Relinked(p, h) ==
    [q \in Players |->
       IF q = p THEN [NoLink EXCEPT !.id = links + 1, !.handle = h]
       ELSE IF q \in Holders(h) THEN NoLink ELSE link[q]]

\* link_account with ownership of the handle proven: another player's link to it
\* goes, with that player's active jobs; the player's own link is replaced.
LinkTo(p, h) ==
    /\ up /\ p \notin answering
    /\ links < MaxLinks
    /\ links' = links + 1
    /\ link' = Relinked(p, h)
    /\ job' = FailActive(Holders(h) \ {p})
    /\ answering' = answering \union {p}
    /\ UNCHANGED <<up, stops, played, gone, owner, scored, run, alert, abandoned>>

\* POST /lichess/link and the sign-in: Lichess has just shown the account.
LinkAccount(p, h) == h \in Proves(p) \ gone /\ LinkTo(p, h)

\* GET /lichess/status links a player whose sign-up account is not linked, and does
\* not ask Lichess: the read takes the handle from whoever has it, and undoes an
\* unlink.  For any other player it changes nothing.
HealLink(p, h) == h \in Registered(p) /\ link[p] = NoLink /\ LinkTo(p, h)

UnlinkAccount(p) ==
    /\ up /\ p \notin answering
    /\ link[p] # NoLink
    /\ link' = [link EXCEPT ![p] = NoLink]
    /\ job' = FailActive({p})
    /\ answering' = answering \union {p}
    /\ UNCHANGED <<up, stops, links, played, gone, owner, scored, run, alert, abandoned>>

\* Both end by resolving the alert, in a transaction of its own.
AnswerAlert(p) ==
    /\ p \in answering
    /\ answering' = answering \ {p}
    /\ alert' = alert \ {p}
    /\ UNCHANGED <<up, stops, links, link, played, gone, owner, scored, job, run, abandoned>>

-----------------------------------------------------------------------------
(* Starting an import *)

ActiveJobs(p) == {r \in Runs : run[r].player = p /\ job[r].status \in Active}
Fresh == {r \in Runs : run[r].pc = "unused" /\ \A s \in 1..r - 1 : run[s].pc # "unused"}

\* The SELECT under the player's lock finds a job to coalesce onto.
Coalesces(p) == ActiveJobs(p) # {}

\* start_import_job: nothing changes for a player who has an active job.  The
\* lock is held until the row is committed and the worker dispatched.
StartImportJob(p, r) ==
    /\ up /\ "job" \in Kinds
    /\ link[p] # NoLink /\ ~Coalesces(p) /\ r \in Fresh
    /\ job' = [job EXCEPT ![r].status = "queued"]
    /\ run' = [run EXCEPT ![r].pc = "queued", ![r].player = p]
    /\ UNCHANGED <<up, stops, links, link, played, gone, owner, scored, alert, answering, abandoned>>

\* import_user_games: the v1 request streams at once and keeps no job row.
ImportUserGames(p, r) ==
    /\ up /\ "sync" \in Kinds
    /\ link[p] # NoLink /\ r \in Fresh
    /\ run' = [run EXCEPT ![r].pc = "opening", ![r].player = p, ![r].held = link[p]]
    /\ UNCHANGED <<up, stops, links, link, played, gone, owner, scored, job, alert, answering,
                   abandoned>>

-----------------------------------------------------------------------------
(* The worker *)

\* What is left of a run that has ended.
Finished(w) == [Blank EXCEPT !.pc = "done", !.player = w.player]

At(r, pc) == up /\ run[r].pc = pc
GoTo(r, pc) ==
    run' = [run EXCEPT ![r] = IF pc = "done" THEN Finished(@)
                              ELSE [@ EXCEPT !.pc = pc, !.known = {}]]
IsJob(r) == job[r].status # "none"
rest == <<up, stops, links, played, gone, answering, abandoned>>

\* run_import_job reads the job and the link; both are held from here on.
PickUp(r) ==
    /\ At(r, "queued")
    /\ LET p == run[r].player
       IN  IF job[r].status \notin Active THEN GoTo(r, "done") /\ UNCHANGED job
           ELSE IF link[p] = NoLink
           THEN GoTo(r, "done") /\ job' = [job EXCEPT ![r] = Failed]
           ELSE run' = [run EXCEPT ![r].pc = "starting", ![r].held = link[p]] /\ UNCHANGED job
    /\ UNCHANGED <<rest, link, owner, scored, alert>>

\* The partial unique index, for a row about to be written as running.
IndexAdmits(r) == ActiveJobs(run[r].player) \subseteq {r}

\* status = running, whatever the row has become; the index may refuse it,
\* which ends the worker.
SetRunning(r) ==
    /\ At(r, "starting")
    /\ IF IndexAdmits(r)
       THEN GoTo(r, "opening") /\ job' = [job EXCEPT ![r].status = "running"]
       ELSE GoTo(r, "done") /\ UNCHANGED job
    /\ UNCHANGED <<rest, link, owner, scored, alert>>

\* The exception path: a job that is still running fails; a 404 goes on to
\* mark the link.
FailStream(r, why) ==
    /\ job' = IF job[r].status = "running"
              THEN [job EXCEPT ![r] = [Failed EXCEPT !.duplicate = (why = "duplicate")]] ELSE job
    /\ GoTo(r, IF why = "not_found" THEN "marking" ELSE "done")

\* The request for the games, from the watermark of the held link, and the
\* ids the player has already.
OpenStream(r) ==
    /\ At(r, "opening")
    /\ LET held == run[r].held
       IN  IF held.handle \in gone
           THEN FailStream(r, "not_found")
           ELSE /\ run' = [run EXCEPT
                     ![r].pc = "streaming",
                     ![r].todo = FetchUserGames(held.handle, held.watermark),
                     ![r].known = {g \in DOMAIN Games : owner[g] = run[r].player}]
                /\ UNCHANGED job
    /\ UNCHANGED <<rest, link, owner, scored, alert>>

\* The stream breaks off, or Lichess answers 429 or 5xx.
StreamBreaks(r) ==
    /\ At(r, "opening") \/ At(r, "streaming")
    /\ FailStream(r, "upstream")
    /\ UNCHANGED <<rest, link, owner, scored, alert>>

Skipped(r, g) == g \in run[r].known \union Unusable

\* A game of the stream, newest first: skipped, refused by the unique key, or
\* inserted and committed, after which a job that is no longer active stops.
ImportGame(r) ==
    /\ At(r, "streaming")
    /\ \E g \in run[r].todo :
         LET left == [run[r] EXCEPT !.todo = @ \ {g}]
         IN  /\ \A x \in run[r].todo : x <= g
             /\ IF Skipped(r, g)
                THEN run' = [run EXCEPT ![r] = left] /\ UNCHANGED <<owner, job>>
                ELSE IF owner[g] # NoOne
                THEN FailStream(r, "duplicate") /\ UNCHANGED owner
                ELSE /\ owner' = [owner EXCEPT ![g] = run[r].player]
                     /\ IF IsJob(r) /\ job[r].status \notin Active
                        THEN GoTo(r, "done")
                        ELSE run' = [run EXCEPT ![r] =
                               [left EXCEPT !.newest = IF g > @ THEN g ELSE @]]
                     /\ UNCHANGED job
    /\ UNCHANGED <<rest, link, scored, alert>>

\* The UPDATE goes to the row the worker holds; without it SQLAlchemy raises.
RowStillThere(r) == link[run[r].player].id = run[r].held.id

\* Mutated form of StreamDone: the watermark advances as games arrive.
StreamOngoing(r) == run[r].newest # 0

StreamDone(r) == run[r].todo = {}

AfterStream(r) == IF run[r].held.disconnected THEN "reconnecting"
                  ELSE IF IsJob(r) THEN "analyzing" ELSE "done"

\* The watermark advances after the last game.
AdvanceWatermark(r) ==
    /\ At(r, "streaming") /\ StreamDone(r)
    /\ IF run[r].newest = 0
       THEN GoTo(r, AfterStream(r)) /\ UNCHANGED <<link, job>>
       ELSE IF RowStillThere(r)
       THEN /\ link' = [link EXCEPT ![run[r].player].watermark = run[r].newest]
            /\ GoTo(r, AfterStream(r)) /\ UNCHANGED job
       ELSE FailStream(r, "stale") /\ UNCHANGED link
    /\ UNCHANGED <<rest, owner, scored, alert>>

\* A clean stream clears the disconnection that the held link shows.
Reconnect(r) ==
    /\ At(r, "reconnecting")
    /\ IF RowStillThere(r)
       THEN /\ link' = [link EXCEPT ![run[r].player].disconnected = FALSE]
            /\ GoTo(r, "resolving") /\ UNCHANGED job
       ELSE FailStream(r, "stale") /\ UNCHANGED link
    /\ UNCHANGED <<rest, owner, scored, alert>>

Resolve(r) ==
    /\ At(r, "resolving")
    /\ alert' = alert \ {run[r].player}
    /\ GoTo(r, IF IsJob(r) THEN "analyzing" ELSE "done")
    /\ UNCHANGED <<rest, link, owner, scored, job>>

\* analyze_unscored_games: a row at a time while the job is active.
AnalyzeGame(r) ==
    /\ At(r, "analyzing") /\ job[r].status = "running"
    /\ \E g \in DOMAIN Games \ scored :
         owner[g] = run[r].player /\ scored' = scored \union {g}
    /\ UNCHANGED <<rest, link, owner, job, run, alert>>

\* The pass ends: no rows left, the cap, a saturated pool or no pool at all.
\* The status is read again before the job is promoted.
Recheck(r) ==
    /\ At(r, "analyzing")
    /\ GoTo(r, IF job[r].status = "running" THEN "promoting" ELSE "done")
    /\ UNCHANGED <<rest, link, owner, scored, job, alert>>

\* status = succeeded, whatever the row has become, and a notification of the
\* games analyzed.
Promote(r) ==
    /\ At(r, "promoting")
    /\ job' = [job EXCEPT ![r].status = "succeeded"]
    /\ GoTo(r, "done")
    /\ UNCHANGED <<rest, link, owner, scored, alert>>

\* _mark_link_disconnected: the player's link, whichever it is by now.
MarkDisconnected(r) ==
    /\ At(r, "marking")
    /\ IF link[run[r].player] = NoLink
       THEN GoTo(r, "done") /\ UNCHANGED link
       ELSE /\ link' = [link EXCEPT ![run[r].player].disconnected = TRUE]
            /\ GoTo(r, "alerting")
    /\ UNCHANGED <<rest, owner, scored, job, alert>>

\* notify_lichess_disconnected: at most one live copy.
NotifyDisconnected(r) ==
    /\ At(r, "alerting")
    /\ alert' = alert \union {run[r].player}
    /\ GoTo(r, "done")
    /\ UNCHANGED <<rest, link, owner, scored, job>>

\* Nothing is caught outside the stream and the analysis: where the job is read or
\* its end is written, a failure of the database ends the worker and leaves the row.
WorkerDies(r) ==
    /\ up /\ run[r].pc \notin Resting /\ job[r].status \in Active
    /\ GoTo(r, "done")
    /\ abandoned' = abandoned \union {r}
    /\ UNCHANGED <<up, stops, links, link, played, gone, owner, scored, job, alert, answering>>

Work(r) ==
    \/ PickUp(r) \/ SetRunning(r) \/ OpenStream(r) \/ ImportGame(r)
    \/ AdvanceWatermark(r) \/ Reconnect(r) \/ Resolve(r) \/ Recheck(r) \/ Promote(r)
    \/ MarkDisconnected(r) \/ NotifyDisconnected(r)

-----------------------------------------------------------------------------
(* The process *)

\* Threads and requests are lost; the rows stay.
Stop ==
    /\ up /\ stops < MaxStops
    /\ up' = FALSE /\ stops' = stops + 1
    /\ run' = [r \in Runs |->
          IF run[r].pc = "unused" THEN run[r] ELSE Finished(run[r])]
    /\ answering' = {}
    /\ UNCHANGED <<links, link, played, gone, owner, scored, job, alert, abandoned>>

\* Mutated form of Sweep: a job no worker picked up is left queued.
SweepRunning == [r \in Runs |->
    IF job[r].status = "running" THEN Failed ELSE job[r]]

\* cleanup_stale_import_jobs_on_startup.
Sweep == FailActive(Players)

\* The lifespan runs the janitor before the first request, and serves though it fails.
Start ==
    /\ ~up
    /\ up' = TRUE
    /\ \/ job' = Sweep /\ abandoned' = {}
       \/ UNCHANGED job /\ abandoned' = {r \in Runs : job[r].status \in Active}
    /\ UNCHANGED <<stops, links, link, played, gone, owner, scored, run, alert, answering>>

ImportNext ==
    \/ PlayGame \/ Stop \/ Start
    \/ \E h \in Handles : CloseAccount(h)
    \/ \E p \in Players :
         \/ UnlinkAccount(p) \/ AnswerAlert(p)
         \/ \E h \in Handles : LinkAccount(p, h) \/ HealLink(p, h)
         \/ \E r \in Runs : StartImportJob(p, r) \/ ImportUserGames(p, r)
    \/ \E r \in Runs : Work(r) \/ StreamBreaks(r) \/ AnalyzeGame(r) \/ WorkerDies(r)

ImportSpec == ImportInit /\ [][ImportNext]_importVars

\* A dispatched worker's thread and the next start of the process are not
\* put off for ever.
ImportFairness == WF_importVars(Start) /\ \A r \in Runs : WF_importVars(Work(r))

-----------------------------------------------------------------------------
(* Properties *)

\* lichess/models.py 20-28: "Exactly one non-terminal job per player at a
\* time", however dispatches, cancellations and late writes interleave.
OneActiveJob == \A p \in Players : Cardinality(ActiveJobs(p)) <= 1

\* A job that is active while the process runs has a worker that is not
\* finished: no client polls a job that nobody advances, unless the database
\* was away at the moment its worker or the janitor had to write its end.
ActiveJobsWorkedOn ==
    up => \A r \in Runs \ abandoned : job[r].status \in Active => run[r].pc \notin Resting

\* A worker writes the watermark of the link it streamed for and of no other:
\* a watermark is a game of the link's account that its player has imported.
WatermarkOfOwnLink ==
    \A p \in Players : link[p].watermark # 0 =>
        /\ link[p].handle \in Games[link[p].watermark]
        /\ owner[link[p].watermark] = p

\* import_service.py 567-569: "The watermark advances only after the whole
\* stream completes".  As long as the games fit in one import, no usable game
\* of the account up to the watermark is missing: none is skipped for ever by
\* a failure, a cancellation or an overlapping import.
NothingBelowWatermarkMissed ==
    Len(Games) <= MaxGames =>
        \A p \in Players : \A g \in 1..link[p].watermark :
            link[p].handle \in Games[g] /\ g \notin Unusable => owner[g] # NoOne

\* import_service.py 564-565: "Per-game dedup uses (source='lichess',
\* external_game_id)", a game that is already stored is a skipped duplicate.
\* The lookup is per player and the unique key is not: a game of two linked
\* players, or of a claimed handle, fails the import.
StoredGamesSkipped == \A r \in Runs : ~job[r].duplicate

\* Every job ends: succeeded, failed, cancelled or swept, unless the database was
\* away when its end was to be written.
JobsEnd == \A r \in Runs :
    job[r].status \in Active ~> job[r].status \notin Active \/ r \in abandoned

\* A player's import runs once and is not abandoned, and the watermark it leaves
\* skips no game.
ImportSafe ==
    ImportTypeOK /\ OneActiveJob /\ ActiveJobsWorkedOn /\ WatermarkOfOwnLink
    /\ NothingBelowWatermarkMissed
=============================================================================
