----------------------------- MODULE GameFinish -----------------------------
(***************************************************************************)
(* POST /game/finish (llm/seca/events/router.py) on Postgres, for one      *)
(* player: overlapping first attempts, retries and other games' finishes,  *)
(* each a sequence of separately committed transactions that can stop      *)
(* after any of them.  A request that gets past the replay guard inserts a *)
(* GameEvent (one per tracked game: a unique index), closes the games row, *)
(* applies the Elo delta under a row lock, records the rating change and   *)
(* stores its response for later replays.                                  *)
(*                                                                         *)
(* An event is named by the request that inserted it.  The rating is the   *)
(* set of events whose delta it contains.                                  *)
(***************************************************************************)
EXTENDS Naturals, Sequences, FiniteSets

CONSTANTS Requests,  \* finish requests of one player, retries included
          GameOf,    \* the game_id each request carries, or NoGame
          NoGame,    \* a client that did not call /game/start
          None       \* no result row, no answer yet

ASSUME GameFinishAssumption ==
    /\ DOMAIN GameOf = Requests
    /\ None \notin [event : Requests, rating : SUBSET Requests]

Games == {GameOf[r] : r \in Requests} \ {NoGame}

Payloads == [event : Requests, rating : SUBSET Requests]
Pending(e) == [pending |-> e]
Replies == Payloads \union {Pending(e) : e \in Requests}

VARIABLES
    events,   \* game_events, in created_at order
    results,  \* game_finish_results: the stored response of each event
    closed,   \* games rows with finished_at set
    rating,   \* players.rating
    applied,  \* history: events whose SkillUpdater transaction committed
    pc,       \* where each request is in the handler
    loaded,   \* the rating in the identity map of each request's session
    outcome,  \* the response body a request has built
    reply     \* what a request answered

vars == <<events, results, closed, rating, applied, pc, loaded, outcome, reply>>

Steps == {"new", "fresh", "stored", "closing", "rating", "rated", "recorded",
          "replied", "stopped"}

Recorded == {events[i] : i \in DOMAIN events}

TypeOK ==
    /\ events \in Seq(Requests)
    /\ results \in [Requests -> Payloads \union {None}]
    /\ closed \subseteq Games
    /\ rating \subseteq Requests
    /\ applied \subseteq Requests
    /\ pc \in [Requests -> Steps]
    /\ loaded \in [Requests -> SUBSET Requests]
    /\ outcome \in [Requests -> Payloads \union {None}]
    /\ reply \in [Requests -> Replies \union {None}]

Init ==
    /\ events = <<>>
    /\ results = [r \in Requests |-> None]
    /\ closed = {}
    /\ rating = {}
    /\ applied = {}
    /\ pc = [r \in Requests |-> "new"]
    /\ loaded = [r \in Requests |-> {}]
    /\ outcome = [r \in Requests |-> None]
    /\ reply = [r \in Requests |-> None]

-----------------------------------------------------------------------------
\* The committed events of a request's game, and the oldest of them.
EventsOf(g) == {i \in DOMAIN events : g # NoGame /\ GameOf[events[i]] = g}

First(g) == events[CHOOSE i \in EventsOf(g) : \A j \in EventsOf(g) : i <= j]

\* Mutated form of Stored: a replay rebuilds the response from current state.
StoredRebuilt(e) == [event |-> e, rating |-> rating]

\* What the replay guard and GET /game/finish/{event_id}/status read: the
\* stored response, or 202 pending.
Stored(e) == IF results[e] # None THEN results[e] ELSE Pending(e)

GoTo(r, step) == pc' = [pc EXCEPT ![r] = step]

\* _replayed_finish_response found an event.
Replay(r) ==
    /\ reply' = [reply EXCEPT ![r] = Stored(First(GameOf[r]))]
    /\ GoTo(r, "replied")
    /\ UNCHANGED <<events, results, closed, rating, applied, loaded, outcome>>

\* The replay guard; afterwards only the engine recompute until the insert.
Guard(r) ==
    /\ pc[r] = "new"
    /\ IF EventsOf(GameOf[r]) # {}
       THEN Replay(r)
       ELSE /\ GoTo(r, "fresh")
            /\ UNCHANGED <<events, results, closed, rating, applied, loaded, outcome, reply>>

\* Mutated form of Insert: without the partial unique index.
InsertUnchecked(r) ==
    /\ pc[r] = "fresh"
    /\ events' = Append(events, r)
    /\ GoTo(r, "stored")
    /\ UNCHANGED <<results, closed, rating, applied, loaded, outcome, reply>>

\* store_game commits the event; the unique index refuses a second one of a
\* tracked game, and the loser serves the winner's.
Insert(r) ==
    /\ pc[r] = "fresh"
    /\ IF EventsOf(GameOf[r]) # {}
       THEN Replay(r)
       ELSE /\ events' = Append(events, r)
            /\ GoTo(r, "stored")
            /\ UNCHANGED <<results, closed, rating, applied, loaded, outcome, reply>>

\* The commit expired the session's objects: the next access to player.id
\* reads the row again.
Reload(r) ==
    /\ pc[r] = "stored"
    /\ loaded' = [loaded EXCEPT ![r] = rating]
    /\ GoTo(r, IF GameOf[r] = NoGame THEN "rating" ELSE "closing")
    /\ UNCHANGED <<events, results, closed, rating, applied, outcome, reply>>

\* repo.finish_game, best effort.
CloseGame(r, done) ==
    /\ pc[r] = "closing"
    /\ closed' = IF done THEN closed \union {GameOf[r]} ELSE closed
    /\ GoTo(r, "rating")
    /\ UNCHANGED <<events, results, rating, applied, loaded, outcome, reply>>

\* SkillUpdater: SELECT ... FOR UPDATE returns the instance the session
\* already holds, without repopulating it; the lock lasts until the commit.
ApplySkill(r) ==
    /\ pc[r] = "rating"
    /\ rating' = loaded[r] \union {r}
    /\ applied' = applied \union {r}
    /\ GoTo(r, "rated")
    /\ UNCHANGED <<events, results, closed, loaded, outcome, reply>>

\* SkillUpdater raises and is rolled back: no rating change for this game.
SkillFails(r) ==
    /\ pc[r] = "rating"
    /\ GoTo(r, "rated")
    /\ UNCHANGED <<events, results, closed, rating, applied, loaded, outcome, reply>>

\* refresh(player), the RatingUpdate and ConfidenceUpdate rows, and the
\* response body with the new rating.
Record(r) ==
    /\ pc[r] = "rated"
    /\ loaded' = [loaded EXCEPT ![r] = rating]
    /\ outcome' = [outcome EXCEPT ![r] = [event |-> r, rating |-> rating]]
    /\ GoTo(r, "recorded")
    /\ UNCHANGED <<events, results, closed, rating, applied, reply>>

\* The response is stored, best effort, and returned either way.
Persist(r, done) ==
    /\ pc[r] = "recorded"
    /\ results' = IF done THEN [results EXCEPT ![r] = outcome[r]] ELSE results
    /\ reply' = [reply EXCEPT ![r] = outcome[r]]
    /\ GoTo(r, "replied")
    /\ UNCHANGED <<events, closed, rating, applied, loaded, outcome>>

\* The process stops or a write outside the try blocks raises: what is
\* committed stays, the client gets no usable answer.
Stop(r) ==
    /\ pc[r] \notin {"replied", "stopped"}
    /\ GoTo(r, "stopped")
    /\ UNCHANGED <<events, results, closed, rating, applied, loaded, outcome, reply>>

Step(r) == \/ Guard(r) \/ Insert(r) \/ Reload(r)
           \/ \E done \in BOOLEAN : CloseGame(r, done) \/ Persist(r, done)
           \/ ApplySkill(r) \/ SkillFails(r) \/ Record(r)

Next == \E r \in Requests : Step(r) \/ Stop(r)

Spec == Init /\ [][Next]_vars
-----------------------------------------------------------------------------
(* Properties *)

\* Every answer a client gets about one game agrees: a stored or replayed
\* result and the status endpoint's are the one the first attempt computed
\* (router.py 467-468: "the exact payload the original POST returned").
OneAnswerPerGame ==
    \A r, s \in Requests :
        GameOf[r] = GameOf[s] /\ GameOf[r] # NoGame /\ reply[r] \in Payloads =>
            /\ reply[s] \in Payloads => reply[s] = reply[r]
            /\ s \in Recorded => Stored(s) \in {reply[r], Pending(s)}

\* A games row is closed only for a game that is in the history, so no game
\* disappears from resume without having been recorded.
ClosedGamesRecorded == \A g \in closed : EventsOf(g) # {}

\* skills/updater.py 42-49: the row lock keeps two finishes "interleaving
\* read-compute-write from the same base" from silently dropping one delta.
EveryDeltaKept == applied \subseteq rating

\* The handler implements the exactly-once ledger; the answer of a game is the
\* set of the responses built for it.
Tally(set) == [g \in Games |-> Cardinality({r \in set : GameOf[r] = g})]

Built == [g \in Games |-> {outcome[r] : r \in {q \in Recorded : GameOf[q] = g}} \ {None}]

Ledger == INSTANCE FinishLedger
    WITH TrackedGames <- Games, NoAnswer <- {},
         recorded <- Tally(Recorded), rated <- Tally(applied), answer <- Built

ImplementsLedger == Ledger!LedgerSpec

\* A game is answered alike every time, and closed only once it is recorded.
FinishSafe == TypeOK /\ OneAnswerPerGame /\ ClosedGamesRecorded
=============================================================================
