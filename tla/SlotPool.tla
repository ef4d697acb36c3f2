------------------------------ MODULE SlotPool ------------------------------
(***************************************************************************)
(* What the Stockfish engine pool promises its callers: a counting         *)
(* semaphore over at most Capacity engines.  A client either holds exactly *)
(* one engine or none; engines may be lost (a failed respawn) or drained   *)
(* (shutdown), but there are never more of them than the pool has slots.   *)
(***************************************************************************)
EXTENDS Naturals, FiniteSets

CONSTANTS Clients,    \* the threads that use the pool
          Capacity    \* EnginePoolSettings.pool_size

VARIABLES available,  \* engines ready to be handed out
          busy        \* clients that hold an engine

slotVars == <<available, busy>>

InUse == available + Cardinality(busy)

SlotInit == available = 0 /\ busy = {}

Supply == /\ InUse < Capacity
          /\ available' = available + 1
          /\ UNCHANGED busy

Take(c) == /\ available > 0
           /\ c \notin busy
           /\ available' = available - 1
           /\ busy' = busy \union {c}

GiveBack(c) == /\ c \in busy
               /\ busy' = busy \ {c}
               /\ available' = available + 1

Lose(c) == /\ c \in busy
           /\ busy' = busy \ {c}
           /\ UNCHANGED available

Drain == /\ available > 0
         /\ available' = available - 1
         /\ UNCHANGED busy

SlotNext == \/ Supply \/ Drain
            \/ \E c \in Clients : Take(c) \/ GiveBack(c) \/ Lose(c)

SlotSpec == SlotInit /\ [][SlotNext]_slotVars
=============================================================================
