--------------------------- MODULE PendingFinish ----------------------------
(***************************************************************************)
(* The Android client's side of POST /game/finish: the call made when a    *)
(* game ends (MainActivity.onGameOver), the one-deep slot that keeps the   *)
(* payload of a failed call (PendingGameFinish), and the retry each        *)
(* activity starts when it is created.  Calls live in their activity's     *)
(* scope and die with it; a POST already on its way does not.  The server  *)
(* is the ledger GameFinish implements: a game has no event, an event      *)
(* whose result is not stored yet, or a stored result.                     *)
(***************************************************************************)
EXTENDS Naturals, FiniteSets

CONSTANTS DeviceGames,        \* games played on this device
          MaxAttempts,  \* withRetry(maxAttempts)
          NoPayload          \* empty slot, no call

ASSUME PendingFinishAssumption ==
    /\ NoPayload \notin DeviceGames \union [game : DeviceGames, left : 1..MaxAttempts]
    /\ MaxAttempts \in Nat \ {0}

Activities == {"main", "home"}

VARIABLES
    alive,      \* activities between onCreate and onDestroy
    over,     \* games that are over
    finishing,  \* attempts left to the onGameOver call of each game, 0: no call
    retrying,   \* the retry call each activity runs
    inFlight,   \* retryInFlight
    slot,       \* PREF_PENDING_FINISH_PAYLOAD
    travelling, \* games with a POST that the server may still handle
    server,     \* the server's ledger
    refused,    \* history: games the server rejected
    givenUp     \* history: games a call ended for, with nothing left to retry

pendingVars == <<alive, over, finishing, retrying, inFlight, slot, travelling, server,
          refused, givenUp>>

\* A call to finishGame: the payload and the attempts withRetry has left.
CallRecords == [game : DeviceGames, left : 1..MaxAttempts]
NewCall(g) == [game |-> g, left |-> MaxAttempts]

PendingTypeOK ==
    /\ alive \subseteq Activities
    /\ over \subseteq DeviceGames
    /\ finishing \in [DeviceGames -> 0..MaxAttempts]
    /\ retrying \in [Activities -> CallRecords \union {NoPayload}]
    /\ inFlight \in BOOLEAN
    /\ slot \in DeviceGames \union {NoPayload}
    /\ travelling \subseteq DeviceGames
    /\ server \in [DeviceGames -> {"none", "event", "result"}]
    /\ refused \subseteq DeviceGames /\ givenUp \subseteq DeviceGames

PendingInit ==
    /\ alive = {}
    /\ over = {}
    /\ finishing = [g \in DeviceGames |-> 0]
    /\ retrying = [a \in Activities |-> NoPayload]
    /\ inFlight = FALSE
    /\ slot = NoPayload
    /\ travelling = {}
    /\ server = [g \in DeviceGames |-> "none"]
    /\ refused = {} /\ givenUp = {}

-----------------------------------------------------------------------------
\* What one attempt can bring back.
CallOutcomes == {"success", "pending", "refused", "expired", "overloaded", "unreachable"}

Possible(g, o) ==
    /\ o = "success" => server[g] = "result"
    /\ o = "pending" => server[g] = "event"

\* isTransient, with the 401 both callers keep the payload for: 5xx and 429
\* ("overloaded"), timeouts and network errors.
IsTransient(o) == o \in {"overloaded", "unreachable"}

KeepsPayload(o) == IsTransient(o) \/ o = "expired"

\* withRetry repeats a timed-out attempt only.
Repeats(o, left) == o = "unreachable" /\ left > 1

Learn(g, o) ==
    /\ refused' = IF o = "refused" THEN refused \union {g} ELSE refused
    /\ givenUp' = IF KeepsPayload(o) \/ o = "success" THEN givenUp ELSE givenUp \union {g}

-----------------------------------------------------------------------------
\* onGameOver: the call starts with a first POST.
GameOver(g) ==
    /\ "main" \in alive
    /\ g \notin over
    /\ over' = over \union {g}
    /\ finishing' = [finishing EXCEPT ![g] = MaxAttempts]
    /\ travelling' = travelling \union {g}
    /\ UNCHANGED <<alive, retrying, inFlight, slot, server, refused, givenUp>>

FinishRepeats(g) ==
    /\ finishing[g] > 0
    /\ Repeats("unreachable", finishing[g])
    /\ finishing' = [finishing EXCEPT ![g] = @ - 1]
    /\ travelling' = travelling \union {g}
    /\ UNCHANGED <<alive, over, retrying, inFlight, slot, server, refused, givenUp>>

\* The call returns: a transient failure or a 401 overwrites the slot.
FinishReturns(g, o) ==
    /\ finishing[g] > 0
    /\ Possible(g, o)
    /\ ~Repeats(o, finishing[g])
    /\ finishing' = [finishing EXCEPT ![g] = 0]
    /\ slot' = IF KeepsPayload(o) THEN g ELSE slot
    /\ Learn(g, o)
    /\ UNCHANGED <<alive, over, retrying, inFlight, travelling, server>>

-----------------------------------------------------------------------------
\* Mutated form of MayRetry: without the process-wide flag.
MayRetryUnguarded == slot # NoPayload

\* compareAndSet on retryInFlight, then the slot is read.
MayRetry == ~inFlight /\ slot # NoPayload

\* onCreate, with retryFromPrefs in it.
Create(a) ==
    /\ a \notin alive
    /\ alive' = alive \union {a}
    /\ IF MayRetry
       THEN /\ retrying' = [retrying EXCEPT ![a] = NewCall(slot)]
            /\ inFlight' = TRUE
            /\ travelling' = travelling \union {slot}
       ELSE UNCHANGED <<retrying, inFlight, travelling>>
    /\ UNCHANGED <<over, finishing, slot, server, refused, givenUp>>

RetryRepeats(a) ==
    /\ retrying[a] # NoPayload
    /\ Repeats("unreachable", retrying[a].left)
    /\ retrying' = [retrying EXCEPT ![a].left = @ - 1]
    /\ travelling' = travelling \union {retrying[a].game}
    /\ UNCHANGED <<alive, over, finishing, inFlight, slot, server, refused, givenUp>>

\* classifyRetryResult: DONE and DROP remove the slot, whatever is in it by
\* now; RESTORE and SESSION_EXPIRED leave it alone.
RetryReturns(a, o) ==
    /\ retrying[a] # NoPayload
    /\ Possible(retrying[a].game, o)
    /\ ~Repeats(o, retrying[a].left)
    /\ retrying' = [retrying EXCEPT ![a] = NoPayload]
    /\ inFlight' = FALSE
    /\ slot' = IF KeepsPayload(o) THEN slot ELSE NoPayload
    /\ Learn(retrying[a].game, o)
    /\ UNCHANGED <<alive, over, finishing, travelling, server>>

\* Mutated form of Destroy: the flag is cleared only when a call returns.
DestroyPinned(a) ==
    /\ a \in alive
    /\ alive' = alive \ {a}
    /\ finishing' = [g \in DeviceGames |->
                       IF a = "main" THEN 0 ELSE finishing[g]]
    /\ retrying' = [retrying EXCEPT ![a] = NoPayload]
    /\ UNCHANGED <<over, inFlight, slot, travelling, server, refused, givenUp>>

\* onDestroy cancels the calls of the activity's scope; the cancelled retry
\* clears the flag in its finally block.
Destroy(a) ==
    /\ a \in alive
    /\ alive' = alive \ {a}
    /\ finishing' = [g \in DeviceGames |->
                       IF a = "main" THEN 0 ELSE finishing[g]]
    /\ retrying' = [retrying EXCEPT ![a] = NoPayload]
    /\ inFlight' = (inFlight /\ retrying[a] = NoPayload)
    /\ UNCHANGED <<over, slot, travelling, server, refused, givenUp>>

\* HomeActivity's long press on the sync indicator, confirmed.
Discard ==
    /\ "home" \in alive
    /\ slot # NoPayload
    /\ slot' = NoPayload
    /\ UNCHANGED <<alive, over, finishing, retrying, inFlight, travelling, server, refused, givenUp>>

-----------------------------------------------------------------------------
\* The server handles a POST: it records the game and stores the result, or
\* stops in between and leaves a pending event.
Handle(g, full) ==
    /\ g \in travelling
    /\ travelling' = travelling \ {g}
    /\ server' = [server EXCEPT ![g] = IF @ # "none" THEN @
                                       ELSE IF full THEN "result" ELSE "event"]
    /\ UNCHANGED <<alive, over, finishing, retrying, inFlight, slot, refused, givenUp>>

LosePost(g) ==
    /\ g \in travelling
    /\ travelling' = travelling \ {g}
    /\ UNCHANGED <<alive, over, finishing, retrying, inFlight, slot, server, refused, givenUp>>

Client == \/ \E g \in DeviceGames : \/ GameOver(g) \/ FinishRepeats(g)
                              \/ \E o \in CallOutcomes : FinishReturns(g, o)
          \/ \E a \in Activities : \/ Create(a) \/ RetryRepeats(a) \/ Destroy(a)
                                   \/ \E o \in CallOutcomes : RetryReturns(a, o)
          \/ Discard

PendingNext == Client \/ \E g \in DeviceGames : LosePost(g) \/ \E full \in BOOLEAN : Handle(g, full)

PendingSpec == PendingInit /\ [][PendingNext]_pendingVars

\* The user keeps opening and leaving the Home screen, every attempt ends (the
\* connection has timeouts), and POSTs and replies get through again and again.
\* Nothing is assumed of MainActivity.
PendingFairness ==
    /\ WF_pendingVars(Create("home")) /\ WF_pendingVars(Destroy("home"))
    /\ \A a \in Activities :
           WF_pendingVars(RetryRepeats(a) \/ \E o \in CallOutcomes : RetryReturns(a, o))
    /\ \A g \in DeviceGames : SF_pendingVars(\E full \in BOOLEAN : Handle(g, full))
    /\ SF_pendingVars(\E a \in Activities, o \in {"success", "pending"} : RetryReturns(a, o))

PendingLiveSpec == PendingSpec /\ PendingFairness
-----------------------------------------------------------------------------
(* Properties *)

\* At most one call posts a given payload, although both activities start a
\* retry and a finished game's own call may still be running: a double fire
\* would create two history rows (PendingGameFinish.kt 161-170).
NoDoubleFire ==
    \A g \in DeviceGames :
        LET calls == {a \in Activities : retrying[a] # NoPayload /\ retrying[a].game = g}
        IN /\ Cardinality(calls) <= 1
           /\ finishing[g] > 0 => calls = {}

\* A game the client stops retrying on its own is safe with the server or was
\* rejected by it: no error the server could recover from drops a payload,
\* 202 pending included.
GivenUpSettled == \A g \in givenUp : server[g] # "none" \/ g \in refused

\* The flag is exactly "some activity runs a retry", so a cancelled retry
\* does not block all later ones.
FlagTracksRetry == inFlight <=> \E a \in Activities : retrying[a] # NoPayload

\* A saved finish does not sit in the slot for ever.
PendingSyncs == \A g \in DeviceGames : slot = g ~> slot # g

\* PendingGameFinish.kt 155-156, "/game/finish succeeded - drop the slot": a
\* retry removes the payload it sent, not a newer one that overwrote it.
RetryClearsOwnPayload ==
    [][\A a \in Activities :
         retrying[a] # NoPayload /\ retrying'[a] = NoPayload /\ slot # NoPayload /\ slot' = NoPayload
            => slot = retrying[a].game]_pendingVars

\* A finished game is posted by one call at a time and given up only when it is safe.
PendingSafe == PendingTypeOK /\ NoDoubleFire /\ GivenUpSettled /\ FlagTracksRetry
=============================================================================
