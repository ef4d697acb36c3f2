----------------------------- MODULE SavedGames -----------------------------
(***************************************************************************)
(* The games table and the cross-device resume of llm/seca/storage/repo.py *)
(* and the endpoints of llm/server.py over it: /game/start,                *)
(* /game/{id}/checkpoint and /game/active, with the owner-scoped           *)
(* finish_game that /game/finish calls.  Every request opens a session of  *)
(* its own, so what one request read may be stale when it writes; an       *)
(* UPDATE carries the columns the handler assigned.                        *)
(***************************************************************************)
EXTENDS Naturals, FiniteSets

CONSTANTS Players, Devices,  \* requests a device sends are answered in turn
          GameIds,           \* ids create_game can draw
          MaxCheckpoints     \* bound on the committed checkpoints

ASSUME SavedGamesAssumption == MaxCheckpoints \in Nat

VARIABLES row,      \* the games table: GameIds to a row, or to NoGame
          request,  \* what the server is doing for each device
          stamped   \* checkpoints committed so far, the clock of the table

gameRowVars == <<row, request, stamped>>

NoGame == [made |-> FALSE]
Idle == [at |-> "idle"]

\* seen is the row as the request read it.
NewGame(p) == [made |-> TRUE, owner |-> p, finished |-> FALSE, saved |-> 0]
GameRows == [made : {TRUE}, owner : Players, finished : BOOLEAN,
             saved : 0..MaxCheckpoints] \union {NoGame}
Calls == {Idle} \union
         [at : {"owned", "read", "ending"}, player : Players, game : GameIds,
          seen : GameRows]

\* A started row keeps its shape, and every request holds a row that existed.
SavedGamesTypeOK ==
    /\ row \in [GameIds -> GameRows]
    /\ request \in [Devices -> Calls]
    /\ stamped \in 0..MaxCheckpoints
    /\ \A d \in Devices : request[d] # Idle => row[request[d].game] # NoGame

SavedGamesInit ==
    /\ row = [g \in GameIds |-> NoGame]
    /\ request = [d \in Devices |-> Idle]
    /\ stamped = 0

Hold(d, at, p, g) ==
    request' = [request EXCEPT ![d] =
                  [at |-> at, player |-> p, game |-> g, seen |-> row[g]]]

Reply(d) == request' = [request EXCEPT ![d] = Idle]

\* The rows /game/active chooses from.
Resumable(p) ==
    {g \in GameIds : row[g].made /\ row[g].owner = p
                     /\ ~row[g].finished /\ row[g].saved > 0}

\* get_active_game: the most recent checkpoint.
ActiveGame(p) == {g \in Resumable(p) : \A h \in Resumable(p) : row[h].saved <= row[g].saved}

\* /game/start by a player whose tier admits it.
StartGame(d, p) ==
    /\ request[d] = Idle
    /\ \E g \in GameIds :
          row[g] = NoGame /\ row' = [row EXCEPT ![g] = NewGame(p)]
    /\ UNCHANGED <<request, stamped>>

\* The checkpoint endpoint's look at the owner: a missing row answers 404,
\* another player's 403 and a finished one 409.
MayCheckpoint(p, g) == row[g].owner = p /\ ~row[g].finished

Checkpoint(d, p, g) ==
    /\ request[d] = Idle
    /\ row[g].made
    /\ MayCheckpoint(p, g)
    /\ Hold(d, "owned", p, g)
    /\ UNCHANGED <<row, stamped>>

\* checkpoint_game reads the row again, in a session of its own.
ReadGame(d) ==
    /\ request[d].at = "owned"
    /\ IF row[request[d].game].finished
       THEN Reply(d)
       ELSE Hold(d, "read", request[d].player, request[d].game)
    /\ UNCHANGED <<row, stamped>>

\* Its UPDATE.  Mutated form: the row is written back as it was read.
PutCheckpointRow(g, seen) == row' = [row EXCEPT ![g] = [seen EXCEPT !.saved = stamped + 1]]

PutCheckpoint(g, seen) == row' = [row EXCEPT ![g].saved = stamped + 1]

WriteCheckpoint(d) ==
    /\ request[d].at = "read"
    /\ stamped < MaxCheckpoints
    /\ PutCheckpoint(request[d].game, request[d].seen)
    /\ stamped' = stamped + 1
    /\ Reply(d)

\* finish_game reads the row; a missing row or another player's is a no-op.
Finishable(p, g) == row[g].made /\ row[g].owner = p

EndGame(d, p, g) ==
    /\ request[d] = Idle
    /\ Finishable(p, g)
    /\ Hold(d, "ending", p, g)
    /\ UNCHANGED <<row, stamped>>

WriteFinish(d) ==
    /\ request[d].at = "ending"
    /\ row' = [row EXCEPT ![request[d].game].finished = TRUE]
    /\ Reply(d)
    /\ UNCHANGED stamped

SavedGamesNext ==
    \E d \in Devices :
       \/ ReadGame(d) \/ WriteCheckpoint(d) \/ WriteFinish(d)
       \/ \E p \in Players :
             \/ StartGame(d, p)
             \/ \E g \in GameIds : Checkpoint(d, p, g) \/ EndGame(d, p, g)

SavedGamesSpec == SavedGamesInit /\ [][SavedGamesNext]_gameRowVars

-----------------------------------------------------------------------------
(* Properties *)

\* repo.py 207-211: "sliding a checkpoint onto a closed game would create a
\* phantom resume entry".  Once a finish is committed, no checkpoint that was
\* read before it brings the game back to /game/active.
NoPhantomResume ==
    [][\A g \in GameIds : row[g].made /\ row[g].finished =>
          \A p \in Players : g \notin ActiveGame(p)']_gameRowVars

\* repo.py 177-190 and server.py 1594-1612: a row changes only on behalf of
\* its owner, whichever ids the other player's requests name.
OnlyOwnerWrites ==
    [][\A g \in GameIds : row[g].made /\ row'[g] # row[g] =>
          \E d \in Devices : /\ request[d] # Idle /\ request'[d] = Idle
                             /\ request[d].game = g
                             /\ request[d].player = row[g].owner]_gameRowVars

\* What no step may do to the games table.
GameRowsKept == NoPhantomResume /\ OnlyOwnerWrites
=============================================================================
