---------------------------- MODULE Entitlements ----------------------------
(***************************************************************************)
(* The metering of llm/seca/entitlements/service.py for one player with    *)
(* enforcement on, for the two rolling metrics: chat_turn, one counter row *)
(* that is checked before the model call and recorded after it, and        *)
(* coached_game, one marker row per admitted game.  Each SQL statement is  *)
(* a step; request threads interleave between them.  A window is Window    *)
(* ticks long and anchored on created_at.  The metrics share no row, so    *)
(* the threads of a behaviour are all about the same one.                  *)
(***************************************************************************)
EXTENDS Naturals, FiniteSets

CONSTANTS Threads,    \* concurrent requests of the player
          CoachedGames,      \* game_ids sent to /live/move
          ChatLimit,  \* LIMITS[plan]["chat_turn"].limit
          GameLimit,  \* LIMITS[plan]["coached_game"].limit
          Window,     \* _ROLLING_WINDOW
          MaxTicks,    \* bound on the clock
          MaxUnread,   \* bound on the turns of a window whose check fails open
          NoRow        \* no row

ASSUME EntitlementsAssumption ==
    /\ IsFiniteSet(Threads) /\ Threads # {}
    /\ ChatLimit \in Nat /\ GameLimit \in Nat
    /\ Window \in Nat \ {0} /\ MaxTicks \in Nat /\ MaxUnread \in Nat
    /\ NoRow \notin Nat \union CoachedGames

Clock == 0..MaxTicks

VARIABLES
    metric,    \* the metric the requests are about
    clock,
    count,     \* count of the chat_turn row
    anchor,    \* its created_at, or None without a row
    markers,   \* created_at of each game's coached_game marker, or None
    doing,        \* where each request is
    stamp,     \* the `now` each request captured
    game,      \* the game each /live/move is about
    verdict,   \* the last answer given to a /live/move
    recorded,  \* history: chat turns that were recorded
    archived,  \* history: turns of the windows that ended
    unread,    \* history: turns under way that were let through unread
    opened     \* history: such turns that the present window counts

chatRow == <<count, anchor, recorded, archived, opened>>
meterVars == <<metric, clock, chatRow, markers, doing, stamp, game, verdict, unread>>
coached == <<markers, game, verdict>>

Writing == {"increment", "reset", "insert", "retry", "admitting"}

\* Every variable has its type; what a request is writing is dated, and a
\* request that is admitting a game knows which one.
MeterTypeOK ==
    /\ metric \in {"chat_turn", "coached_game"}
    /\ clock \in Clock
    /\ count \in Nat
    /\ anchor \in Clock \union {NoRow}
    /\ markers \in [CoachedGames -> Clock \union {NoRow}]
    /\ doing \in [Threads -> {"idle", "answering"} \union Writing]
    /\ stamp \in [Threads -> Clock]
    /\ game \in [Threads -> CoachedGames \union {NoRow}]
    /\ verdict \in {"none", "coached", "degraded", "unmetered"}
    /\ recorded \in Nat
    /\ archived \in Nat
    /\ unread \subseteq Threads
    /\ opened \in Nat
    /\ \A t \in Threads : doing[t] = "admitting" => game[t] # NoRow

MeterInit ==
    /\ metric \in {"chat_turn", "coached_game"}
    /\ clock = 0
    /\ count = 0 /\ anchor = NoRow
    /\ markers = [g \in CoachedGames |-> NoRow]
    /\ doing = [t \in Threads |-> "idle"]
    /\ stamp = [t \in Threads |-> 0]
    /\ game = [t \in Threads |-> NoRow]
    /\ verdict = "none"
    /\ recorded = 0 /\ archived = 0
    /\ unread = {} /\ opened = 0

\* created_at > at - _ROLLING_WINDOW.
Live(created, at) == created # NoRow /\ created + Window > at

\* Bound: a request writes its rows less than a window after it took the time.
Prompt == \A t \in Threads : doing[t] \in Writing => clock + 1 < stamp[t] + Window

ClockTicks ==
    /\ clock < MaxTicks
    /\ Prompt
    /\ clock' = clock + 1
    /\ UNCHANGED <<metric, chatRow, coached, doing, stamp, unread>>

MoveOn(t, s) == doing' = [doing EXCEPT ![t] = s]

-----------------------------------------------------------------------------
(* chat_turn *)

\* check: the next turn is within the limit.
MayChat == IF Live(anchor, clock) THEN count < ChatLimit ELSE 0 < ChatLimit

\* POST /chat: a turn over the limit is answered 402.
Chat(t) ==
    /\ metric = "chat_turn"
    /\ doing[t] = "idle"
    /\ MayChat
    /\ MoveOn(t, "answering")
    /\ UNCHANGED <<metric, clock, chatRow, coached, stamp, unread>>

\* The query of check fails: the turn is let through, whatever the row says.
ChatUnread(t) ==
    /\ metric = "chat_turn"
    /\ doing[t] = "idle"
    /\ Cardinality(unread) + opened < MaxUnread
    /\ unread' = unread \union {t}
    /\ MoveOn(t, "answering")
    /\ UNCHANGED <<metric, clock, chatRow, coached, stamp>>

\* The request is over; it was let through by a check or without one.
Over(t) == MoveOn(t, "idle") /\ unread' = unread \ {t}

\* The model call fails: nothing is recorded.
ChatFails(t) ==
    /\ doing[t] = "answering"
    /\ Over(t)
    /\ UNCHANGED <<metric, clock, chatRow, coached, stamp>>

\* It succeeds: record captures the time.
ChatAnswers(t) ==
    /\ doing[t] = "answering"
    /\ stamp' = [stamp EXCEPT ![t] = clock]
    /\ MoveOn(t, "increment")
    /\ UNCHANGED <<metric, clock, chatRow, coached, unread>>

Unread(t) == IF t \in unread THEN 1 ELSE 0

CountOne(t) == count' = count + 1 /\ recorded' = recorded + 1 /\ opened' = opened + Unread(t)

\* UPDATE count = count + 1 on a live window.
Increment(t) ==
    /\ doing[t] = "increment"
    /\ IF Live(anchor, stamp[t])
       THEN CountOne(t) /\ Over(t)
       ELSE MoveOn(t, "reset") /\ UNCHANGED <<count, recorded, opened, unread>>
    /\ UNCHANGED <<metric, clock, anchor, archived, coached, stamp>>

FreshWindow(t) == anchor' = stamp[t]

\* The WHERE clause of the reset, evaluated on the row as it is now.
WindowOver(t) == anchor # NoRow /\ ~Live(anchor, stamp[t])

\* UPDATE count = 1, created_at = now on an expired one.
Reset(t) ==
    /\ doing[t] = "reset"
    /\ IF WindowOver(t)
       THEN /\ archived' = archived + count
            /\ count' = 1
            /\ FreshWindow(t)
            /\ recorded' = recorded + 1 /\ opened' = Unread(t)
            /\ Over(t)
       ELSE MoveOn(t, "insert") /\ UNCHANGED <<chatRow, unread>>
    /\ UNCHANGED <<metric, clock, coached, stamp>>

\* INSERT; the unique key refuses a second row.
InsertRow(t) ==
    /\ doing[t] = "insert"
    /\ IF anchor = NoRow
       THEN CountOne(t) /\ FreshWindow(t) /\ Over(t)
       ELSE MoveOn(t, "retry") /\ UNCHANGED <<count, anchor, recorded, opened, unread>>
    /\ UNCHANGED <<metric, clock, archived, coached, stamp>>

\* Mutated form of Retry: the loser of the insert race gives up.
RetryDropped(t) ==
    /\ doing[t] = "retry"
    /\ recorded' = recorded + 1
    /\ Over(t)
    /\ UNCHANGED <<metric, clock, count, anchor, archived, opened, coached, stamp>>

\* The increment on the winner's row; whatever it matched, record returns.
Retry(t) ==
    /\ doing[t] = "retry"
    /\ IF Live(anchor, stamp[t])
       THEN CountOne(t)
       ELSE recorded' = recorded + 1 /\ UNCHANGED <<count, opened>>
    /\ Over(t)
    /\ UNCHANGED <<metric, clock, anchor, archived, coached, stamp>>

-----------------------------------------------------------------------------
(* coached_game *)

LiveMarkers(at) == {g \in CoachedGames : Live(markers[g], at)}

Answer(v) == verdict' = v

SlotFree == Cardinality(LiveMarkers(clock)) < GameLimit

\* admit reads the markers in the window: a game that has one is coached, a
\* new one is admitted while there is room and degrades otherwise.
Move(t, g) ==
    /\ metric = "coached_game"
    /\ doing[t] = "idle"
    /\ IF Live(markers[g], clock)
       THEN Answer("coached") /\ UNCHANGED <<doing, stamp, game>>
       ELSE IF SlotFree
       THEN /\ MoveOn(t, "admitting")
            /\ stamp' = [stamp EXCEPT ![t] = clock]
            /\ game' = [game EXCEPT ![t] = g]
            /\ UNCHANGED verdict
       ELSE Answer("degraded") /\ UNCHANGED <<doing, stamp, game>>
    /\ UNCHANGED <<metric, clock, chatRow, markers, unread>>

\* The query of admit fails: the game is coached unmetered.
MoveUnread(t, g) ==
    /\ metric = "coached_game"
    /\ doing[t] = "idle"
    /\ Answer("unmetered")
    /\ UNCHANGED <<metric, clock, chatRow, markers, doing, stamp, game, unread>>

\* The INSERT of the marker; on a unique-key conflict the existing marker's
\* window is refreshed.  Both leave created_at = now.
Admit(t) ==
    /\ doing[t] = "admitting"
    /\ markers' = [markers EXCEPT ![game[t]] = stamp[t]]
    /\ Answer("coached")
    /\ Over(t)
    /\ UNCHANGED <<metric, clock, chatRow, stamp, game>>

\* A database error rolls back and fails open: the turn is not counted, the
\* game is coached unmetered.
DbFails(t) ==
    /\ doing[t] \in Writing
    /\ IF doing[t] = "admitting" THEN Answer("unmetered") ELSE UNCHANGED verdict
    /\ Over(t)
    /\ UNCHANGED <<metric, clock, chatRow, markers, game, stamp>>

MeterNext == \/ ClockTicks
        \/ \E t \in Threads :
              \/ Chat(t) \/ ChatUnread(t) \/ ChatFails(t) \/ ChatAnswers(t)
              \/ Increment(t) \/ Reset(t) \/ InsertRow(t) \/ Retry(t)
              \/ Admit(t) \/ DbFails(t)
              \/ \E g \in CoachedGames : Move(t, g) \/ MoveUnread(t, g)

MeterSpec == MeterInit /\ [][MeterNext]_meterVars

-----------------------------------------------------------------------------
(* Properties *)

\* service.py 388-390: concurrent turns can't lose a count or double a window.
\* Whatever the interleaving of increment, reset and insert across an expiry,
\* each turn that record() completed is in the row or in a window that ended.
CountsEveryTurn == archived + count = recorded

\* server.py 1910-1920: check and record are not atomic, and a check that cannot
\* read the row lets the turn through (service.py 29-34), so turns may pass the
\* limit; but a window never holds more than the limit, one for each other
\* request under way, and the turns that were let through unread.
TurnsBounded ==
    Live(anchor, clock) => count < ChatLimit + Cardinality(Threads) + opened

\* service.py 40-43: games racing the last slot may over-admit, but at any
\* time the window holds at most the limit and one for each racing request;
\* a game that is coached unmetered leaves no marker.
AdmissionsBounded ==
    Cardinality(LiveMarkers(clock)) < GameLimit + Cardinality(Threads)

\* Every recorded turn is counted, and a window passes its limit by less than the
\* number of racing requests and of the turns whose check failed open.
MeterSafe == MeterTypeOK /\ CountsEveryTurn /\ TurnsBounded /\ AdmissionsBounded
=============================================================================
