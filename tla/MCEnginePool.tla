---------------------------- MODULE MCEnginePool ----------------------------
(* Model-checking instances of EnginePool. *)
EXTENDS EnginePool, TLC

CONSTANTS w1, w2, e1, e2, e3

TwoWorkers == {w1, w2}
ThreeEngines == {e1, e2, e3}
PooledOnly == {"pooled"}

WorkerEngineSymmetry == Permutations(Workers) \union Permutations(Engines)
=============================================================================
