---------------------------- MODULE MCPlayScreen ----------------------------
(* PlayScreen with few plies and resets, fewer for the player who does not   *)
(* wait for the app.                                                         *)
EXTENDS PlayScreen

FewPlies == [rash \in BOOLEAN |-> IF rash THEN 2 ELSE 4]
FewResets == [rash \in BOOLEAN |-> IF rash THEN 1 ELSE 2]
=============================================================================
