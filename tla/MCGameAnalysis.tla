--------------------------- MODULE MCGameAnalysis ----------------------------
(* GameAnalysis with one short game whose last move may give mate. *)
EXTENDS GameAnalysis

OneTable == {[start |-> 0, cps |-> {-100, 0, 100}, plies |-> 6]}
PieceCount(ply) == 30 - 3 * ply
=============================================================================
