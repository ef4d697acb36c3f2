--------------------------- MODULE MCLichessImport ---------------------------
(* LichessImport with two players, of whom p1 can prove both Lichess accounts *)
(* and p2 only the second, with which p2 has signed up, and two games: one of *)
(* the first account alone, one the two accounts played against each other.  *)
EXTENDS LichessImport

CONSTANTS p1, p2, h1, h2

TwoGames == <<{h1}, {h1, h2}>>
Ownership(p) == IF p = p1 THEN {h1, h2} ELSE {h2}
SignedUpWith(p) == IF p = p2 THEN {h2} ELSE {}
=============================================================================
