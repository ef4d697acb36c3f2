---------------------------- MODULE FinishLedger ----------------------------
(***************************************************************************)
(* What POST /game/finish promises for a game the client tracks by id: the *)
(* game enters the player's history at most once, its rating delta is      *)
(* applied at most once and only for a recorded game, and every answer     *)
(* that carries a result carries the same one.                             *)
(***************************************************************************)
EXTENDS Naturals

CONSTANTS TrackedGames,  \* the ids handed out by POST /game/start
          NoAnswer       \* no payload has been computed

VARIABLES recorded,  \* history rows of each game
          rated,     \* rating applications of each game
          answer     \* the result the game was answered with

ledgerVars == <<recorded, rated, answer>>

LedgerInit ==
    /\ recorded = [g \in TrackedGames |-> 0]
    /\ rated = [g \in TrackedGames |-> 0]
    /\ answer = [g \in TrackedGames |-> NoAnswer]

Enter(g) == /\ recorded[g] = 0
            /\ recorded' = [recorded EXCEPT ![g] = 1]
            /\ UNCHANGED <<rated, answer>>

Rate(g) == /\ rated[g] < recorded[g]
           /\ rated' = [rated EXCEPT ![g] = 1]
           /\ UNCHANGED <<recorded, answer>>

\* The result itself is any value.
Settle(g) == /\ recorded[g] = 1
             /\ answer[g] = NoAnswer
             /\ answer' = [answer EXCEPT ![g] = answer'[g]]
             /\ UNCHANGED <<recorded, rated>>

LedgerNext == \E g \in TrackedGames : Enter(g) \/ Rate(g) \/ Settle(g)

LedgerSpec == LedgerInit /\ [][LedgerNext]_ledgerVars
=============================================================================
