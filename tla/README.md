# Cereveon: verification project

Cereveon is a chess coaching product: a FastAPI server (`src/llm`) that plays,
evaluates, coaches and keeps each player's history and rating, and an Android
app (`src/android`; `src/ios` is a port) that plays the games. This directory
holds TLA+ models of the parts whose correctness depends on interleaving,
failure, ordering and time, the TLC configurations that check them, and TLAPS
proofs about them.

Contents: [inventory](#inventory), [modules](#modules), [runs](#runs),
[findings](#findings), [other observations](#other-observations),
[proofs](#proofs), [not modelled](#not-modelled), [plan](#plan).

## Inventory

The server runs one uvicorn process. Plain `def` handlers and blocking calls run
in a thread pool, so several requests of one player execute at the same time and
interleave between database transactions (Postgres in production, READ
COMMITTED). Long work runs in worker pools of its own (Lichess imports, reviews,
study plans). The process can stop anywhere; what was committed stays.

| Component | State | Operations | Hard behaviour | What makes it correct | Modules |
|---|---|---|---|---|---|
| Engine pool (`engines/stockfish/pool.py`) | queue of handles, strikes, `_started` | startup, acquire, operate, release, evict and respawn, close | request threads racing each other and `close`, engines that hang or die, failing respawns | a handle has one owner; a release never blocks; exactly the engines that fail repeatedly are replaced | `EnginePool`, `SlotPool` |
| Score cache (`pool.py`, `FenEvalCache`) | Redis, a local table | get, put, restart with other settings | Redis away, back, or holding what another writer put there | a position gets its own score, under the present settings; a foreign one never enters the table | `EvalCache` |
| Game finish (`events/router.py`, `skills/updater.py`) | game_events, results, games, players.rating | the finish handler, the status read | concurrent retries, a stop between four transactions | a game enters the history and the rating once; all answers about it agree | `GameFinish`, `FinishLedger` |
| Android pending finish (`PendingGameFinish.kt`) | one preference slot, `retryInFlight` | game over, retry, discard, destruction | timeouts of calls that arrived, a slot overwritten during a retry | no finished game is dropped by an error that could pass | `PendingFinish` |
| Game screen (`ChessViewModel.kt`, `ChessBoardView.kt`, `MainActivity.kt`) | board, turn, history, snapshot | moves, the engine's reply, hints, promotion, undo, reset, resume | coroutines of a state that is gone | a late answer changes nothing; the game does not freeze | `PlayScreen` |
| Saved games (`storage/repo.py`) | games rows with checkpoints | create, checkpoint, finish, active game | a checkpoint racing a finish | a closed game is not offered for resume; a row changes for its owner only | `SavedGames` |
| Game analysis (`analysis/`, `mistakes/`, `review/moments.py`) | none | losses, phases, first mistake, critical moments | thresholds, mates, caps and gaps | a slide is noticed, a mating move is no error, no slot stays empty | `GameAnalysis` |
| Game review (`review/service.py`) | review rows | start or coalesce, requeue, engine stage, text stage, janitor | two requests requeue one row, a restart, an end that cannot be written | one worker per review; none is stuck whose end could be written | `GameReview` |
| Notifications (`notifications/service.py`) | feed rows | produce with merging, read, dismiss, expire | two producers merging into one row | a count is not lost, a read row does not change | `NotificationFeed` |
| Session rotation (`auth/service.py`, the middleware, `TokenRefresh.kt`) | current and previous token, grace; the client's token | admit and mint, commit on 2xx, receive, revoke | overlapping requests, replies in another order or lost | an active client stays in; a token that was replaced stays out after its grace | `SessionRotation` |
| Accounts (`auth/service.py`, `auth/erasure.py`) | players, sessions | register, login, cap, sliding expiry, password change, erasure | logins racing all the others | no session of an old password or an erased player | `Accounts` |
| Entitlements (`entitlements/service.py`) | counter and marker rows | check, record, admit | concurrent first uses, a window that ends between two statements, a read that fails | no recorded use is lost; the limit is passed by no more than the concurrency and the turns whose check failed open | `Entitlements` |
| Billing (`billing/router.py`) | players.plan | store webhook, purchase verification | duplicated, delayed, reordered and unmatched events | the plan reflects the last event handled; a grant that names the player is not lost | `Billing` |
| Lichess link and import (`lichess/import_service.py`) | links, jobs, imported events, watermark | link, claim, unlink, start, worker, janitor | a worker running while its link is removed, a restart | one active job; the watermark covers only what was imported | `LichessImport` |
| Sign in with Lichess (`auth/router.py`, `lichess/client.py`) | codes, tokens, players | exchange, link, web erasure, backfill | lost answers, a database that goes away, a retried code | no token is left behind | `LichessSignIn` |
| Chat and live-move replies (`coach/`) | none across requests | prompt, ask, gates, retry, fall back | a text that is rejected again and again | what the boundary would reject is never served, and somebody always answers | `CoachReply` |
| Coach streaming (`chat_stream_pipeline.py`) | the stream | forward words, retry, store, count, rotate | words forwarded before a phrase is complete, a client that leaves, steps that fail alone | what is stored is what the user saw; a token is committed once | `ChatStream` |
| Model call (`explain_pipeline.py`, `observability.py`) | meters | one attempt | a stream that ends before its usage frame | what served or was abandoned is not free | `LlmCall` |
| Texts of reviews and plans (`review/writer.py`, `verdict.py`) | the review's result | one attempt and one retry per text | a provider that goes down between two attempts | only vetted texts; the outcome tells the truth | `CoachTexts` |
| Comments on moves, badge (`server.py`, `live_move_pipeline.py`) | database connections | two evaluations, grade, hint, badge | an evaluation that fails, three signs | blame and praise fit the position | `LiveMove` |
| Study weeks (`coach/study_plan/`, `training/`) | plans, puzzles, XP | mint, serve, solve, credit | two sheets on two devices | a plan is completed by its three days, each paid once | `StudyWeek`, `PracticePuzzles` |
| Puzzle trainer (`puzzles/router.py`, `PuzzleTrainerBottomSheet.kt`) | the sheet | fetch, try, check, solve | answers that cross a new puzzle | a puzzle that is served has a legal line, and is paid for at its end or for a sound move off it | `PuzzleTrainer` |
| Opening repertoire (`storage/repo.py`) | repertoire rows | seed, add, activate, delete | overlapping edits | one active opening; deleted defaults stay away | `Repertoire` |
| Rating, controller, bandit (`skills/`, `brain/bandit/`) | players, weights, observations | update, choose, learn | overlapping finishes, an erased account | own rating, counted observations | `CoachPolicy` |
| Server start (`server.py`, `auth/router.py`) | the schema | init_schema, CASCADE retrofit, janitors, pool | two processes at once, a stop between DROP and ADD | no process serves off half a schema | `ServerBoot` |
| Prompts, freeze guard, embeddings, analytics, legal, curriculum, rate limiting, API clients, iOS, C++ engine | | | | | [not modelled](#not-modelled) |

`PROJECT.json` lists every component with what of it is left out, and every hazard at its
line with the properties that would catch it.

**Interaction.** The app's finish (`PlayScreen`, `PendingFinish`) arrives at `GameFinish`; the
answers `PendingFinish` may get are those the ledger of `GameFinish` can give. A finish
feeds `CoachPolicy` and, after the import of games (`LichessImport`), `NotificationFeed` and
`StudyWeek`. Every evaluation goes through `EvalCache` and `EnginePool`; every text through
`LlmCall`, then the gates of `CoachReply`, `ChatStream` or `CoachTexts`. Each authenticated request
passes `SessionRotation`, whose sessions `Accounts` opens and closes, and many pass
`Entitlements`, whose plan `Billing` sets. The components meet in committed rows, so each is
modelled with the other side of its rows as nondeterminism, and the instances below put them side
by side.

## Modules

Each module opens with what it models; what follows says how the larger ones correspond to
the code. `map` in `PROJECT.json` gives the lines of every definition.

- **EnginePool.** `queue` is `_engines`, `failures` is `_consecutive_failures`, `phase` stands for
  `_started` with the progress of the lifespan handler and of `close`; `pc`, `held`, `caller` and
  `healthy` say what each thread is doing and `health` what the subprocess of a handle does.
  `Operate` succeeds only on a working engine; `Release` follows `_release_engine`. A "direct" caller
  is `/engine/eval` or `mistakes/verify.py`, which release without reporting failure.
  `losses` is history: the operations each engine really failed in a row. `SlotPool` is the
  abstract promise, a semaphore of slots that may be forfeited.
- **GameFinish.** Every transaction of `_finish_game_body` is an action; `Stop` can end a request
  between any two. The rating is the set of events whose delta it includes, which tells a lost
  delta from an applied one. `loaded` is the rating in the session's identity map: a commit expires
  it, the next attribute access reloads it, a locking query does not. `FinishLedger` counts rows
  and ratings per game.
- **PendingFinish.** `slot` is the preference, `finishing` the call of each game with its remaining
  attempts, `retrying` the retry of each activity. A POST stays in `travelling` until the
  server handles or loses it, whatever becomes of the call.
- **PlayScreen.** The board, the view model and the coroutines between them; `taps` are the player's
  moves, `aiJobs` the engine's; each carries the id of the state it was started for
  (`OfThisState`). `hasty` tells a player who acts before the last move's coroutines are through.
- **SessionRotation.** A token is the second it was minted in, because the JWT of a session contains
  nothing else that varies. `Admit` is `get_current_player`, `Respond` the middleware with
  `rotate_session_token`, `Receive` is `consumeRefreshedToken` behind the client's success codes.
  `habit` is how a client calls: at once or one by one, with which answers, on which network.
- **Accounts.** One `players` row per identity, sessions in the order they were inserted. A request
  reads, then commits; `crossed` is history: another commit fell between.
- **Entitlements.** `record` is the three statements of `_record_rolling` and the retry after an
  `IntegrityError`, each a step; between the check and the record a chat turn waits for the model. `ChatUnread` and
  `MoveUnread` are the checks that fail open: `unread` holds such turns under way, `opened` counts those of the window.
- **LichessImport.** Links, jobs and runs; a run is a worker from pickup to promotion. A game is its place in time and
  who played it. `Stop` and `Start` with the janitor, `UnlinkAccount` at any step. `WorkerDies` is a failure of the
  database where nothing catches it, and `Start` may find that the janitor fails: `abandoned` holds the jobs left so.
- **NotificationFeed.** The feed is in the order of `created_at`, so that a merge moves its row to the end. The count of a
  row is the set of the producers' calls it includes: a lost or a doubled increment shows.
- **GameReview, SavedGames, Repertoire, StudyWeek, Billing, CoachPolicy.** One row, or a few;
  each handler's reads and commits are separate steps; a history variable (`raced`,
  `overlap`, `overlapped`) says that another request fell between them where a property depends
  on it. In `GameReview` a worker that raises may fail to mark its row, and a boot to sweep it (`stranded`); in `Billing`
  the events of `unmatched` name no player and are answered 200.
- **CoachReply, ChatStream, CoachTexts.** A text is the set of marks it bears (a leak, notation, a
  banned phrase) or a sequence of words of which two phrases are forbidden; the gates are the code's, in
  the code's order. `Persist`, `RecordTurn` and `CommitRotation` of a stream are steps of their own, each of which may fail
  and be swallowed (`swallowed`).
- **LlmCall.** One attempt over any sequence of the provider's frames; `meter` is what
  `observe_llm_call` records.
- **LiveMove.** Scores are numbers, so that the three signs (White's score, the seat, the side
  to move) are computed as in the code; the connections of the database pool are counted.
- **PuzzleTrainer.** A position is the moves that lead to it; `sheet` is the bottom sheet, `checks` the
  attempts whose answer is out. `sheet.crossed`: the puzzle came while a move of the one
  before it was being checked.
- **GameAnalysis, PracticePuzzles.** Sequential algorithms over bounded games and puzzle sets, with the
  choices the environment makes (a result, a rate limit, a shuffle) left open. A table of evaluations may contain
  mate in n, as the value the code collapses it to.
- **EvalCache.** Redis comes and goes, drops entries, and under a key may hold a score that another writer put there
  (`Alien`): whatever has the shape of a score is served, and what has not is the same to `get` as nothing (`Empty`);
  the local table is in the order of use, with its bound and ages.
- **ServerBoot.** `Migrations` is the list the server applies, several processes run it, each
  statement is a step, and `Kill` ends one anywhere.
- **MC\*** instantiate them for TLC. `MCPlayAndCoach`, `MCWorkEnds`, `MCPlayerAccount` and `MCLichess` are
  sums: a behaviour is one of the component its `part` names while the others rest in their initial
  state, so that one run answers the question for all of them.
- **\*_proofs** hold the theorems.

## Runs

Five runs pass. Each checks one conjunction (`XSafe`) per component, so that a component's invariants
are checked together; action and temporal properties are listed by themselves. Deadlock
checking is off where requests are finite in number and the system stops when they are done.

| Run | Instance | Shows |
|---|---|---|
| `pool_served` | `MCEnginePool` with the pool's own operations, 2 fair threads, 3 engine identities, 2 strikes | `StrikesSafe`, and under fairness `BadEngineReplaced`: a hung or dead engine is replaced while the pool serves |
| `import_safety` | `MCLichess`: parts import, signin, moves, badge, trainer | `ImportSafe`, `SignInSafe`, `LiveMoveSafe`, `TrainerSafe`, `ProgressKept` |
| `play_and_coach` | `MCPlayAndCoach`: parts pool, cache, saved, analysis, review, feed, reply, stream, week, repertoire, model, texts, policy, rating | twelve `XSafe` invariants, the refinement `ImplementsSlotPool`, and `GameRowsKept`, `FullReviewKept`, `ReadRowsFrozen`, `LeakIsNotRetried`, `PolicySteps` |
| `work_ends` | `MCWorkEnds`: parts import, review, reply, stream, week, puzzles, pending, boot | under fairness everything that is started ends: `ServerWorkEnds`, `ConversationsEnd`, `PlayersWorkEnds`; and `PracticeSafe`, `PendingSafe` |
| `player_account` | `MCPlayerAccount`: parts finish, rotation, meter, accounts, billing, boot, screen | seven `XSafe` invariants, the refinement `ImplementsLedger` |

Seven runs must fail; they are the [findings](#findings): `pool_direct`, `finish_delta`,
`pending_overwrite`, `session_accepted`, `import_dedup`, `analysis_mate`, `resume_behind`.

What the conjunctions join, besides the type invariant of their module:

| Conjunction | Joins |
|---|---|
| `PoolSafe`, `StrikesSafe` | `ExclusiveOwnership`, `PutNeverBlocks`; `StrikesCountLosses`, `StrikeEntriesBounded`, `EvictionJustified` |
| `CacheSafe` | `HitsAreOwnAndFresh` |
| `FinishSafe` | `OneAnswerPerGame`, `ClosedGamesRecorded` |
| `RotationSafe` | `ActiveClientStaysIn`, `ClientInStep`, `RotatedOutStaysOut` |
| `AccountsSafe` | `PasswordChangeLogsOut`, `SessionsCapped`, `NoSessionOfErasedPlayer`, `SessionOutlivesToken` |
| `MeterSafe` | `CountsEveryTurn`, `TurnsBounded`, `AdmissionsBounded` |
| `BillingSafe` | `PlanTracksStore`, `NoGrantLost` |
| `BootSafe` | `ServesWholeSchema`, `NoConstraintLost`, `PoolRefsAgree` |
| `ScreenSafe` | `StaleDiscarded`, `NeverFrozen`, `EndIsReported` |
| `PendingSafe` | `NoDoubleFire`, `GivenUpSettled`, `FlagTracksRetry` |
| `ImportSafe` | `OneActiveJob`, `ActiveJobsWorkedOn`, `WatermarkOfOwnLink`, `NothingBelowWatermarkMissed` |
| `SignInSafe` | `NoTokenLeft`, `SignedInIsServed` |
| `ReviewSafe` | `ActiveReviewWorkedOn`, `OneWorker`, `RetriesSkipEngine` |
| `FeedSafe` | `AnnouncesWhatWasAnalyzed`, `OneLiveAlert` |
| `ReplySafe`, `StreamSafe` | `NeverAnError`, `GatesAgree`; `NoLeadingWordShown`, `PanelIsHistory`, `EndedStreamRotated` |
| `LlmSafe`, `TextsSafe` | `SpendSeen`, `CostWithinPrices`, `OkMeansServed`, `CapHolds`; `OnlyVettedShown`, `OutcomeTellsTruth`, `RefusedOncePerText` |
| `LiveMoveSafe` | `BlameIsEarned`, `AheadIsWhoItSays`, `PraiseFitsThePosition`, `BadgeFavoursTheBetter`, `ChatsLeaveThePool` |
| `TrainerSafe` | `ServedLegal`, `CreditNeedsWalk`, `BoardIsWalk` |
| `WeekSafe`, `PracticeSafe` | `SolvedWeekIsCompleted`, `DaysInOrder`, `NoDoubleCredit`; `WeekRampsUp`, `HarderBeforeEasier`, `RepeatsOnlyWhenStarved` |
| `RepertoireSafe` | `OneActiveUnlessOverlapped`, `DroppedStaysDropped` |
| `AnalysisSafe` | `MatingMoveNoError`, `SlideIsNoticed`, `StrategicMeansNoErrors`, `CardsFilled`, `NegativesCapped` |
| `PolicySafe`, `PolicySteps` | `RewardsAddUp`, `WeightsAreObservations`, `DrillsNeedOverlap`, `ErasedLeavesNothing`; `OwnRatingKept`, `PlanFollowsPattern`, `BurnedNotRepeated` |
| `ServerWorkEnds`, `ConversationsEnd`, `PlayersWorkEnds` | `JobsEnd`, `ReviewsEnd`, `BootsInTheEnd`; `EveryoneIsServed`, `StreamEnds`; `EveryWeekEnds`, `PracticeSettles`, `PendingSyncs` |

**Conditions in the properties.** Some properties hold only while requests do not overlap, and say so with a history
variable; the code has no lock there and TLC refutes them without the condition. Two overlapping requests about one
account can pass the session cap or keep a session of the old password (`crossed`); two reviews can both be dispatched
(`raced`); two notifications can lose a count (`overlap`); two activations can leave two active openings; a puzzle
that crosses a check can be credited for another's move (`sheet.crossed`); a client with two calls in flight can fall
a rotation behind (`Careful`), and a player who undoes in the middle of a move can freeze a game (`hasty`). So these
races themselves are not caught: the properties say that nothing else has their effect. `FullReviewKept` and
`OneWorker` leave out `raced`, `ReadRowsFrozen`, `OneLiveAlert` and the last part of `AnnouncesWhatWasAnalyzed` leave
out `overlap`, `RewardsAddUp`, `DrillsNeedOverlap` and `OwnRatingKept` leave out `log.overlap`, and
`WeightsAreObservations` then says only that what is counted is whole and counted once.

Others name the failure that the code swallows. A review or an import whose end could not be written stays active
(`stranded`, `abandoned`), and the properties leave it out; a stream that could not store or rotate
ends all the same (`swallowed`); a turn whose check could not read is let through (`opened`); a grant that names no
player is answered as handled (`unmatched`); a score that another writer put into Redis is served (`Alien`).
`ChatsLeaveThePool` is about `/chat` only: `/live/move` does keep a connection, see below. `ServedLegal` does not say
that the player can walk the line. `SpendSeen` leaves out attempts that time out or break, blank texts and a provider
that reports no prompt.

**Bounds.** They are the constants of the cfgs. Two threads and a pool of two let an engine be held while another is
evicted; `pool_served` has a third identity so that a replacement differs from what it replaces, `play_and_coach` one
strike so that every failure evicts. Three attempts at one game give a winner of the insert, a loser that passed the
guard, and a replay; the untracked fourth changes the rating from elsewhere. Two games are the least that can
overwrite a one-deep slot. A grace of 2 in 3 seconds leaves a rotation and its grace. A window of 2 in 5 ticks holds
two expiries, and the third game is the one a limit passed by one would admit. Two players and two handles, two links
and two runs, one stop, two games of which both may have been played by both handles, are the least in which a
watermark can be wrong; Lichess closing an account is in `work_ends` and `import_dedup`. `SESSION_EXTEND`,
`SLIDE_THRESHOLD` and `ACCESS_EXPIRE` are 1, a cap of two sessions and three logins evict one. The three analysis
tables serve long slides (6 plies), quick blunders (6) and games that reach the ending (10); the theorem has no such
bound. Three producers of notifications and two devices with one week's two plans are the least that race. Two retries
of the model, three or four words and three frames reach every branch of the generators: `SomePieces` holds either
half of the gate's phrase, the firewall's, and a mate's answer, and four words let two out before the look-ahead of
two, with one retry of a stream. `Ttl` 0 makes an entry old at the first tick, one turn that is let through unread
shows in a window of limit one, and four events are a grant that is matched or not, an expiration and both again. Two
server processes, one kill and every age of the database reach every order of the migration's statements.

**Symmetry** (`WorkerEngineSymmetry`, `EitherRequest`) is used for interchangeable threads, engines, requests and taps, and
never in a run with liveness.

**Fairness.** `EnginePool`: weak fairness of each thread's call, since the operating system schedules the
threads and traffic goes on; nothing makes an engine fail or recover or an operation succeed.
`LichessImport`, `GameReview`, `StudyWeek`: weak fairness of each worker's next step and of the process's restart; the
outcome of a step is free, a failure included. `ServerBoot`: of each server's next statement, kills being bounded.
`CoachReply`, `ChatStream`, `PracticePuzzles`: of the one task's next step: every call of the model
and of Lichess has a timeout. `StudyWeek` assumes also that midnight comes and that a player who opened a sheet goes
on with it. `PendingFinish`: the user returns to the Home screen again and again, every attempt ends (the timeouts are
set), a POST on its way is handled in the end if it is again and again not lost, and infinitely many attempts
succeed if infinitely many are made; nothing is assumed of `MainActivity`.

## Findings

1. `pool_direct`: `/engine/eval` and the replay verifier release a failed handle as healthy,
   so the strike rule stated at `pool.py:539-542` does not hold for them.
2. `finish_delta`: the row lock of SkillUpdater does not refresh an instance that is already in
   the session, so overlapping finishes of two games can still lose a rating change.
3. `pending_overwrite`: a successful retry clears the slot although a newer game is in it.
4. `session_accepted`: a 202 from `/game/finish` rotates the token and the client drops the new one.
5. `import_dedup`: the import looks duplicates up per player, the unique key has no player in it; a game
   of two linked players fails the second one's import each time it is tried.
6. `analysis_mate`: the replay verifier refuses a move that mates, because mate 0 has no sign.
7. `resume_behind`: a game left without the exit button is resumed with one move on the board that
   is not in its history, and with the turn at an engine nobody asks.

## Other observations

Met while reading the code for the models; no run states them.

- `server.py:1342`: `str(player.id)` after a commit reloads the player, so `/live/move` holds a connection
  while the model is asked, contrary to its comment (1333-1336); `/chat/stream` does not commit before its
  engine evaluation. `LiveMove` counts the connections of `/live/move` and of `/chat`.
- `training/router.py:198` adds XP without the lock `training/models.py:4-5` asks for.
- `server.py:385-392` says the replay verifier's pool is wired "mirrored at shutdown"; 461-488 leave the reference.
- `auth/web_deletion.py:347-359` leaves the Lichess token when the account cannot be fetched after the exchange;
  `auth/router.py:845-863` and 913-923 say "never raises" and read `player.id`, which can, before their `try`.
- `explain_pipeline.py:236-242` skips frames that are not JSON, but one that is JSON and no object ends the call; a
  call that times out or breaks after content is recorded as free (435-447). A model without a price costs 0
  (`observability.py:266-270`).
- `entitlements/service.py:456-457`: a game degraded at one move can be admitted at a later one, when the window has
  moved on. `billing/router.py:366-367`: the plan tracks the order in which events are handled. `storage/repo.py:415-416`:
  exactly one active opening, unless two activations overlap.
- A transition of 30 centipawns or less counts as a mistake in one place and is accepted by the replay check.
- `server.py:2139-2140` says that "counted" and "persisted" can never drift apart: they are called together, but each
  swallows its own failure. After a commit of the rotation that failed the client holds a token the server does not
  know and must log in again (2170-2177).
- `review/service.py:315-316`: a review whose failure could not be marked stays active until a boot; the same
  of an import whose worker the database ends (`import_service.py:690`). The log of a boot whose janitor failed says that
  POSTs heal stale rows on demand (`server.py:317-320`); a POST for an active review returns it as it is (178-180).
- `billing/router.py:390-397`: a grant that arrives before the SDK knows the player is lost unless an event that names
  the player follows.
- A first token of white space costs a stream one of its retries.
- Duplicate rows keep a server from starting until they are repaired by hand; several uvicorn workers would run
  each other's janitor.
- Ratings: imported games count as experience in the K-factor; a link's calibration can
  overwrite the rating of a finish that overlaps it; `PATCH /auth/me` accepts a rating below 100; an observation saved
  after an erasure leaves a row nobody owns; the DRILL and PUZZLE rules cannot fire for a single finish below a
  rating of about 2390; with `SECA_USE_BANDIT_COACH=1` the controller's action is credited.
- Links: the status self-heal undoes an unlink, may take a handle over on a GET, and makes a later sign-in skip the
  calibration.
- Puzzles: `load_library` is read at the first request, so a malformed corpus is a 500 at run time;
  the trainer cannot solve a promotion, refuses a puzzle whose line ends in mate, and credits the puzzle that was
  on the board before "Next puzzle" (`sheet.crossed`).
- Screen: promotions of the player never enter `moveHistory`; Undo clears all of it while the board keeps earlier moves;
  `resetBoard` keeps `pendingGameResult`; the engine's reply after a promotion is not in the snapshot; late
  hints overwrite later ones.

## Proofs

Seven modules hold theorems, one for each group of components; `PROJECT.json` lists the results a reader
should know of. Every one is of the module's own specification and for every value of its constants under the
assumption the module names (`EnginePoolAssumption`, `AccountsAssumption`, ...): finite sets where the code has a
bounded pool, types of the data, and no more. TLC evaluates each assumption in a passing run. Every `XSafe`
invariant and every action property of the runs is proved; liveness is not (see the end).

The pattern is the same throughout. `XInv` is inductive (`XInit => XInv`, one lemma per action for the step, a
theorem `XInvariance`), and `XIsSafe` derives the properties from it. What a property says
is seldom inductive, because it does not say what the requests in flight have read. So most invariants have a part
`Fits`, `Asked`, `Carries` or `HasRead` per request, process or device: at this step of it, this is what it knows and
this is what it may rely on. Where the property has a condition, so has that part: what a request knows of its row
holds as long as nobody has crossed it.

| Module | Components |
|---|---|
| `EnginePool_proofs` | `EnginePool`, its refinement of `SlotPool`, the strikes |
| `GameFinish_proofs` | `GameFinish`, its refinement of `FinishLedger`; `GameAnalysis` |
| `Storage_proofs` | `SavedGames`, `Repertoire`, `EvalCache`, `StudyWeek`, `PracticePuzzles`, `NotificationFeed` |
| `Account_proofs` | `SessionRotation`, `Entitlements`, `Billing`, `Accounts`, `ServerBoot` |
| `Device_proofs` | `PendingFinish`, `PlayScreen`, `PuzzleTrainer` |
| `Jobs_proofs` | `GameReview`, `LichessImport`, `LichessSignIn` |
| `Coach_proofs` | `CoachReply`, `ChatStream`, `LiveMove`, `LlmCall`, `CoachTexts`, `CoachPolicy` |

**EnginePool.** `IInv` joins `TypeOK` with: the queue holds no handle twice, what a thread does agrees with what
it holds, and every live handle is in the queue or held by one thread but not both. Ownership alone
is not inductive: a release puts back a handle that must be known not to be queued already. Queued handles
and engaged threads together never exceed the pool size, which is why the untimed `put` of a release cannot
wait. Each step is a step of the semaphore or a stutter. For the strikes, `KnownFit` counts the handles that
have strikes or an engine, and the threads that owe one, against the pool size: that bounds the table whoever calls.
That the table is the number of operations failed in a row needs the pool's own callers (`Callers \subseteq
{"pooled"}`, the hypothesis of `StrikesAreRight`); finding 1 is what happens otherwise. It is stated until
`close`, which leaves its strikes behind.

**GameFinish.** `IInv` joins `TypeOK` with: the unique index; where a request is in the handler against what it has
left in the history, the rating and the response (`Journey`); a stored response is the one that was built
(`Derived`); every answer with a result was built by a recorded request of the same game
(`AnswersBuilt`). The refinement maps the insert to `Enter`, the rating transaction to `Rate`, the building
of the response to `Settle`, and every other step to a stutter.

**GameAnalysis.** `GameInv` is short: every evaluation lies between the two mate values, and that of a mating ply is
against the side that has to move. What `AnalysisIsSafe` needs beyond it is about the functions of a series. The two
producers of losses agree because both are the difference cut at zero. The phases partition the errors, so their
shares add up to the counts. A slide is noticed at the least ply behind the losing line. The ranking contains every
candidate once, since no two have the same number of better ones (`RanksDiffer`, `AllAreRanked`). For the cards, the
two passes over the ranking are followed from place to place (`PassSteps`): a pass only adds, never adds a third
negative while it is capped, and a candidate it has come by is picked, too close to a card, or finds all slots taken.

**Accounts and sessions.** `RotationInv`: with one request in flight, tokens are minted in order; a client that
follows the protocol holds the current token. `RotationIsSafe` has the hypothesis that a client with one call at a
time on a good network uses routes that answer 200 or an error: finding 4 is what a 202 does to it. `AccountsInv` says
of every request what it knows of its row while nobody else has committed, of every session that it fits its account,
and that a login about to commit leaves room under the cap. `MeterInv` counts the threads between a read of the
allowance and its increment, and the turns let through unread: that is by how much a limit can be passed. `BillingInv`
follows the last event that was applied, the deliveries still due and the events that name no player. `BootInv` says
which steps of the migration a process has behind it and that they are in the schema, that every constraint it dropped
is still to be added by it, and which of the pool's three references are set.

**Storage.** `RowsInv` ties a request to the owner of its row. `RepertoireInv`: an activation has read every row that
is active now, as long as no writer of the flag overlaps it; there is one active row and one such writer; and which
defaults are gone. `CacheInv`: every score of ours in either table is that of its key's position under its key's
settings, and the local table holds no other. `WeekInv` relates plans, sheets and counters: the days of a week are
served in order, so the last day is in no sheet before the others are solved, and what was paid is what was credited.
`PracticeInv`: the bands asked for so far are the first of their order, and what was kept of the answers is the
player's own side, each puzzle once, and the pair is the first two of it or a pair of the library. That an easier band
waits for the harder ones follows from the order of the list alone. `FeedInv`: no two rows share an id or the games of
one call; what a producer holds of a count belongs to the one row it has read it in (`TargetFits`), which is why a
merge, that replaces the count, cannot announce a game twice however producers overlap; and while nothing falls
between a look and its write, the target is still as it was read, unread, and every game that was analyzed is
announced (`Undisturbed`).

**The app.** `PendingInv`: one retry at a time, and only of games whose own call is over. `ScreenInv`: every coroutine
of the present state finds the turn, the board and the history as its kind needs them; for a player who waits, one
move and one reply at a time (`Orderly`). `TrainerInv`: while the puzzle did not cross a check, the position is the
line as far as it was walked and one attempt starts from there. It rests on `WalkOn`, that each move of a line leads
one position further and no other move stays in it, and on `ServedFits`, that the line of what the server lets through
is legal.

**Jobs.** `ReviewInv`: an active row of a running process has a worker that is going to end it, or its end could not
be written, and while no two requests overlapped the workers take turns (`InTurn`). `ImportInv`: links have different
ids, a run fits its job and its link, and everything above a run's watermark that is not imported is still before it
(`Covers`, `SeesAll`); unlinking and relinking make a new link, whose watermark no old run can write. `SignInInv` says
what a request carries of the code's token at each step, so that the only ways out revoke it or have kept it on
purpose.

**The coach.** `CoachInv`: the text at the boundary has passed the gates, or is the deterministic one, which passes
for every signal, route and style (`FallbackPasses`). `StreamInv`: what was emitted stays `LookaheadWords` behind the
buffer, so that a phrase of either gate is complete before its first word is out; and what has been stored, counted
and rotated at each place, or swallowed. `LiveMoveInv`: what a call holds of its scores, grade and texts;
`LiveMoveIsSafe` assumes that no centipawn score reaches the value of a mate (`MatesOutrank`), as the code does.
`LlmInv`: the cap, an attempt under way, and a price between the two rates for any split. `TextsInv`: the texts come
in the order of the cards, the verdict last, and the provider refuses at most once a text. `PolicyInv`: while no two
requests cross (`log.overlap`), one finish is under way, the row has moved since it read it by no more than one game
can move it, and the rewards add up to what the rating had moved when it began (`OneAtATime`). Rating arithmetic is
proved for every rating and opponent the code can meet: a loss costs at most 20 points, a rating stays in 100..3000.
`LearnedInv` is what makes the bandit's weights observations: a stored row and the copy a finish is about to save are
both the sum of a set of places in the log of observations under the present context, of all of them while no two
requests cross, and a row of another context has none. Saving adds the new place to that set; the copy of a finish
that another one has crossed misses places, and counts none twice. The proof corrected two properties that the small
instance had let pass: the controller counts the *keys* of three games run together, so a plan follows when the two
older games have one weak phase each, the same, and the newest lists it last (`PlanFollowsPattern`, `TailKeys`); and a
player whose rating and confidence have come back to the defaults is taken for a new one by a link (`OwnRatingKept`).

**Sums and passes.** Two modules compute with recursive functions: the sum of rewards and the passes over the ranking.
The library's induction theorems take an operator, which the provers cannot instantiate, so the proof modules state
induction of their own about a set: the least number outside of it would have a predecessor inside (`Induction`, from
the well-foundedness of the naturals). `Recursion` follows from it: on `0..n` there is a function with a given first
value and given steps. With it the function that `SumRewards` or `PickPass` chooses exists (`SumSteps`, `PassSteps`),
and its laws are proved from place to place (`SumOfNone`, `SumGrows`).

**Only model-checked.** Liveness (`BadEngineReplaced`, `ServerWorkEnds`, `ConversationsEnd`, `PlayersWorkEnds`): the prover
does not reason about fairness or `ENABLED`. The findings are counterexamples and stay with TLC too.

## Not modelled

Wording and prompts (`rag/prompts`, the word lists of the validators), the freeze guard's scan of imported modules
(one constant of `ServerBoot`), feature vectors and embeddings, analytics, feedback, moderation and legal texts, the
curriculum, routers and rate limits, rendering and the one-call methods of the API clients, the iOS port, and the C++
engine's search: they are sequential, hold no state that outlives a request, or are beyond enumeration. Inside the
modelled components: `FenMoveCache`, the UCI options, the calendar metrics, password hashing, the rules of chess on
the screen, the review of an old game on the same board, a screen that is recreated with its view model. Each
component's note in `PROJECT.json` says what else.

## Plan

1. Compose `PlayScreen` with `PendingFinish` (the end of a game to its report), and `Accounts` with
   `SessionRotation`, as far as TLC's time allows.
