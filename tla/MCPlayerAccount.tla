---------------------------- MODULE MCPlayerAccount ----------------------------
(* What the server keeps for a player's account: finished games and ratings,   *)
(* the session's tokens, accounts and their sessions, the metered allowances,  *)
(* the plan, and the schema the server boots on; and the game on the player's  *)
(* phone.  The components share no state here: a behaviour is one of the       *)
(* component its `part` names, the others rest where they start.               *)
EXTENDS GameFinish, SessionRotation, Entitlements, Accounts, Billing, ServerBoot, MCPlayScreen,
        TLC

CONSTANTS r1, r2, r3, r4, g1

VARIABLE part

\* Three attempts at one tracked game, one finish without a game id.
FourRequests == {r1, r2, r3, r4}
Retries == (r1 :> g1) @@ (r2 :> g1) @@ (r3 :> g1) @@ (r4 :> NoGame)

\* A client that makes one call at a time on a good network, and one that
\* overlaps calls, uses every route and loses replies.
TwoHabits == {[inFlight |-> 1, statuses |-> {"ok", "error"}, lossy |-> FALSE],
              [inFlight |-> 2, statuses |-> AllStatuses, lossy |-> TRUE]}

\* A column of the first models and one that came later, with their indexes.
LichessColumn == [kind |-> "column", on |-> "lichess_user_id", model |-> TRUE, partial |-> FALSE]
AppGameColumn == [kind |-> "column", on |-> "app_game_id", model |-> FALSE, partial |-> TRUE]
SchemaSteps == <<LichessColumn, [LichessColumn EXCEPT !.kind = "index"],
                 AppGameColumn, [AppGameColumn EXCEPT !.kind = "index"]>>

AccountInit ==
    /\ part \in {"finish", "rotation", "meter", "accounts", "billing", "boot", "screen"}
    /\ Init /\ SessionInit /\ MeterInit /\ AccountsInit /\ BillingInit /\ BootInit
    /\ ScreenInit
    /\ part # "rotation" => habit.lossy
    /\ part # "meter" => metric = "chat_turn"
    /\ part # "screen" => hasty
    /\ part # "boot" => postgres /\ safe /\ ~db.tables

Rests(p, itsVars) == IF part = p THEN TRUE ELSE UNCHANGED itsVars

AccountNext ==
    /\ UNCHANGED part
    /\ \/ part = "finish" /\ Next
       \/ part = "rotation" /\ SessionNext
       \/ part = "meter" /\ MeterNext
       \/ part = "accounts" /\ AccountsNext
       \/ part = "billing" /\ BillingNext
       \/ part = "boot" /\ BootNext
       \/ part = "screen" /\ ScreenNext
    /\ Rests("finish", vars) /\ Rests("rotation", sessionVars) /\ Rests("meter", meterVars)
    /\ Rests("accounts", accountVars) /\ Rests("billing", billingVars)
    /\ Rests("boot", bootVars) /\ Rests("screen", screenVars)

AccountSpec ==
    AccountInit
    /\ [][AccountNext]_<<part, vars, sessionVars, meterVars, accountVars, billingVars,
                         bootVars, screenVars>>

\* The requests of Accounts are interchangeable, and so are the taps.
EitherRequest == Permutations(AuthRequests) \union Permutations(Taps)
=============================================================================
