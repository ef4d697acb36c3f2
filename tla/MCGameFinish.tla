---------------------------- MODULE MCGameFinish ----------------------------
(* Model-checking instances of GameFinish: three attempts at one tracked game *)
(* and one finish without a game id.                                          *)
EXTENDS GameFinish, TLC

CONSTANTS r1, r2, r3, r4, g1

FourRequests == {r1, r2, r3, r4}
Retries == (r1 :> g1) @@ (r2 :> g1) @@ (r3 :> g1) @@ (r4 :> NoGame)

\* The attempts at the tracked game are interchangeable.
RetrySymmetry == Permutations({r1, r2, r3})
=============================================================================
