-------------------------- MODULE EnginePool_proofs --------------------------
(***************************************************************************)
(* Theorems about EnginePool for every set of workers, pool size and       *)
(* strike limit: exclusive ownership of the engine handles, a put that     *)
(* never blocks, the refinement of the abstract semaphore SlotPool, and    *)
(* strikes that count the operations an engine fails in a row.             *)
(***************************************************************************)
EXTENDS EnginePool, FiniteSetTheorems, SequenceTheorems, TLAPS

\* The handles in a sequence.
Elements(q) == {q[i] : i \in DOMAIN q}

Distinct(q) == \A i, j \in DOMAIN q : q[i] = q[j] => i = j

\* Taking the head of a duplicate-free queue removes exactly that handle.
LEMMA TakeHead ==
    ASSUME NEW S, NEW q \in Seq(S), q # <<>>, Distinct(q)
    PROVE  /\ Head(q) \in S /\ Tail(q) \in Seq(S)
           /\ Len(Tail(q)) = Len(q) - 1
           /\ Distinct(Tail(q))
           /\ Head(q) \in Elements(q)
           /\ Elements(Tail(q)) = Elements(q) \ {Head(q)}
<1>1. /\ Head(q) \in S /\ Tail(q) \in Seq(S)
      /\ Len(Tail(q)) = Len(q) - 1
      /\ \A i \in 1 .. Len(Tail(q)) : Tail(q)[i] = q[i+1]
      /\ Head(q) = q[1]
      /\ Len(q) \in Nat \ {0}
  BY HeadTailProperties, EmptySeq
<1>2. DOMAIN q = 1 .. Len(q) /\ DOMAIN Tail(q) = 1 .. Len(q) - 1
  BY <1>1, LenProperties
<1>3. Distinct(Tail(q))
  BY <1>1, <1>2 DEF Distinct
<1>4. Head(q) \in Elements(q)
  BY <1>1, <1>2 DEF Elements
<1>5. Elements(Tail(q)) = Elements(q) \ {Head(q)}
  <2>1. ASSUME NEW i \in DOMAIN Tail(q)
        PROVE  Tail(q)[i] \in Elements(q) \ {Head(q)}
    BY <1>1, <1>2 DEF Elements, Distinct
  <2>2. ASSUME NEW j \in DOMAIN q, q[j] # Head(q)
        PROVE  q[j] \in Elements(Tail(q))
    <3>1. j - 1 \in DOMAIN Tail(q) /\ Tail(q)[j - 1] = q[j]
      BY <2>2, <1>1, <1>2
    <3> QED BY <3>1 DEF Elements
  <2> QED BY <2>1, <2>2 DEF Elements
<1> QED BY <1>1, <1>3, <1>4, <1>5

\* Appending a new handle to a duplicate-free queue keeps it duplicate-free.
LEMMA AppendNew ==
    ASSUME NEW S, NEW q \in Seq(S), NEW e \in S, Distinct(q), e \notin Elements(q)
    PROVE  /\ Append(q, e) \in Seq(S)
           /\ Len(Append(q, e)) = Len(q) + 1
           /\ Distinct(Append(q, e))
           /\ Elements(Append(q, e)) = Elements(q) \union {e}
<1>1. /\ Append(q, e) \in Seq(S)
      /\ Len(Append(q, e)) = Len(q) + 1
      /\ \A i \in 1 .. Len(q) : Append(q, e)[i] = q[i]
      /\ Append(q, e)[Len(q) + 1] = e
  BY AppendProperties
<1>2. /\ DOMAIN q = 1 .. Len(q) /\ Len(q) \in Nat
      /\ DOMAIN Append(q, e) = 1 .. Len(q) + 1
  BY <1>1, LenProperties
<1>3. ASSUME NEW i \in DOMAIN Append(q, e)
      PROVE  (i \in DOMAIN q /\ Append(q, e)[i] = q[i])
             \/ (i = Len(q) + 1 /\ Append(q, e)[i] = e)
  BY <1>1, <1>2
<1>4. Distinct(Append(q, e))
  BY <1>2, <1>3 DEF Distinct, Elements
<1>5. Elements(Append(q, e)) = Elements(q) \union {e}
  <2>1. Elements(Append(q, e)) \subseteq Elements(q) \union {e}
    BY <1>3 DEF Elements
  <2>2. e \in Elements(Append(q, e))
    BY <1>1, <1>2 DEF Elements
  <2>3. Elements(q) \subseteq Elements(Append(q, e))
    BY <1>1, <1>2 DEF Elements
  <2> QED BY <2>1, <2>2, <2>3
<1> QED BY <1>1, <1>4, <1>5

-----------------------------------------------------------------------------
(* The inductive invariant *)

\* A worker holds a handle exactly between taking it and giving it back or
\* disposing of it.
HeldWhileInHand ==
    \A w \in Workers :
        held[w] # None <=> pc[w] \in {"running", "releasing", "putting", "disposing"}

\* No request is served before the pool is up.
QuietBeforeUp == ~Started /\ phase # "closed" => \A w \in Workers : pc[w] = "idle"

SlotBound == Len(queue) + Cardinality(Engaged) <= PoolSize

IInv == TypeOK /\ HeldWhileInHand /\ QuietBeforeUp /\ ExclusiveOwnership /\ SlotBound

\* How the number of engaged workers moves when one worker changes step.
LEMMA EngagedMoves ==
    ASSUME TypeOK, NEW w \in Workers, NEW s \in Steps, pc' = [pc EXCEPT ![w] = s]
    PROVE  /\ Cardinality(Engaged) \in Nat /\ Cardinality(Engaged') \in Nat
           /\ w \in Engaged => Cardinality(Engaged) > 0
           /\ (w \in Engaged <=> pc[w] \notin {"idle", "waiting"})
           /\ s \in {"idle", "waiting"} =>
                /\ Engaged' = Engaged \ {w}
                /\ Cardinality(Engaged') =
                     IF w \in Engaged THEN Cardinality(Engaged) - 1 ELSE Cardinality(Engaged)
           /\ s \notin {"idle", "waiting"} =>
                /\ Engaged' = Engaged \union {w}
                /\ Cardinality(Engaged') =
                     IF w \in Engaged THEN Cardinality(Engaged) ELSE Cardinality(Engaged) + 1
<1>1. IsFiniteSet(Engaged) /\ IsFiniteSet(Engaged')
  BY EnginePoolAssumption, FS_Subset DEF Engaged
<1>2. /\ s \in {"idle", "waiting"} => Engaged' = Engaged \ {w}
      /\ s \notin {"idle", "waiting"} => Engaged' = Engaged \union {w}
  BY DEF TypeOK, Engaged, Steps
<1>3. Cardinality(Engaged) \in Nat /\ Cardinality(Engaged') \in Nat
  BY <1>1, FS_CardinalityType
<1>4. w \in Engaged => Cardinality(Engaged) > 0
  BY <1>1, <1>3, FS_EmptySet
<1> QED BY <1>1, <1>2, <1>3, <1>4, FS_AddElement, FS_RemoveElement DEF Engaged

\* Queued and Elements are the same set; ownership makes the queue duplicate-free.
LEMMA QueueView ==
    Queued = Elements(queue)
    /\ ((\A i, j \in DOMAIN queue : queue[i] = queue[j] => i = j) <=> Distinct(queue))
BY DEF Queued, Elements, Distinct

\* The pool starts empty, with every invariant in place.
THEOREM InitInvariant == Init => IInv
<1> SUFFICES ASSUME Init PROVE IInv
  OBVIOUS
<1> USE EnginePoolAssumption
<1>1. TypeOK
  BY DEF Init, TypeOK, Phases, Steps, AllCallers
<1>2. HeldWhileInHand /\ QuietBeforeUp
  BY DEF Init, HeldWhileInHand, QuietBeforeUp
<1>3. ExclusiveOwnership
  BY DEF Init, ExclusiveOwnership, Queued, Holding, Live
<1>4. Engaged = {}
  BY DEF Init, Engaged
<1>5. SlotBound
  BY <1>4, FS_EmptySet DEF Init, SlotBound
<1> QED BY <1>1, <1>2, <1>3, <1>5 DEF IInv

\* The steps of the queue-free part of a call: they move one worker between
\* steps, at most touch the bookkeeping, and leave every handle where it is.
LEMMA BookkeepingPreserves ==
    ASSUME IInv,
           phase' = phase, queue' = queue, health' = health, held' = held,
           TypeOK', HeldWhileInHand', QuietBeforeUp',
           Cardinality(Engaged') <= Cardinality(Engaged), Cardinality(Engaged') \in Nat,
           Cardinality(Engaged) \in Nat
    PROVE  IInv'
<1>1. ExclusiveOwnership'
  BY DEF IInv, ExclusiveOwnership, Queued, Holding, Live
<1>2. Len(queue) \in Nat
  BY LenProperties DEF IInv, TypeOK
<1>3. SlotBound'
  BY <1>2, EnginePoolAssumption DEF IInv, SlotBound
<1> QED BY <1>1, <1>3 DEF IInv

\* Every step of a worker's call preserves the invariant.
LEMMA CallPreserves ==
    ASSUME IInv, NEW w \in Workers, Call(w)
    PROVE  IInv'
<1> USE EnginePoolAssumption
<1>0. TypeOK /\ HeldWhileInHand /\ QuietBeforeUp /\ ExclusiveOwnership /\ SlotBound
  BY DEF IInv
<1>q. /\ Len(queue) \in Nat /\ Distinct(queue) /\ Queued = Elements(queue)
      /\ queue \in Seq(Engines)
  BY <1>0, LenProperties, QueueView DEF TypeOK, ExclusiveOwnership
<1>1. ASSUME NEW k \in AllCallers, Request(w, k) PROVE IInv'
  <2>1. TypeOK' /\ HeldWhileInHand' /\ QuietBeforeUp'
    BY <1>0, <1>1 DEF Request, TypeOK, HeldWhileInHand, QuietBeforeUp, Started, Phases, Steps
  <2>2. Cardinality(Engaged') <= Cardinality(Engaged) /\ Cardinality(Engaged') \in Nat
        /\ Cardinality(Engaged) \in Nat
    <3>1. pc[w] = "idle" /\ pc' = [pc EXCEPT ![w] = "waiting"] /\ "waiting" \in Steps
      BY <1>1 DEF Request, Steps
    <3>2. /\ Cardinality(Engaged) \in Nat /\ Cardinality(Engaged') \in Nat
          /\ Cardinality(Engaged') = Cardinality(Engaged)
      BY ONLY <1>0, <3>1, w \in Workers, EngagedMoves
    <3> QED BY ONLY <3>2
  <2> QED BY <1>1, <2>1, <2>2, BookkeepingPreserves DEF Request
<1>2. ASSUME Acquire(w) PROVE IInv'
  <2>1. /\ Head(queue) \in Engines /\ Tail(queue) \in Seq(Engines)
        /\ Len(Tail(queue)) = Len(queue) - 1 /\ Distinct(Tail(queue))
        /\ Head(queue) \in Queued /\ Elements(Tail(queue)) = Queued \ {Head(queue)}
    BY <1>q, <1>2, TakeHead DEF Acquire
  <2>2. TypeOK' /\ HeldWhileInHand' /\ QuietBeforeUp'
    BY <1>0, <1>2, <2>1 DEF Acquire, TypeOK, HeldWhileInHand, QuietBeforeUp, Started, Phases, Steps
  <2>3. ExclusiveOwnership'
    <3>1. Queued' = Queued \ {Head(queue)} /\ Distinct(queue')
      BY <1>2, <2>1 DEF Acquire, Queued, Elements
    <3>2. w \notin Holding
      BY <1>0, <1>2 DEF Acquire, HeldWhileInHand, Holding
    <3>3. Holding' = Holding \union {w}
      BY <1>0, <1>2, <2>1 DEF Acquire, Holding, TypeOK
    <3> QED BY <1>0, <1>2, <2>1, <3>1, <3>2, <3>3
            DEF Acquire, ExclusiveOwnership, Live, Holding, TypeOK, Distinct
  <2>4. SlotBound'
    <3>1. pc[w] = "waiting" /\ pc' = [pc EXCEPT ![w] = "running"] /\ "running" \in Steps
      BY <1>2 DEF Acquire, Steps
    <3>2. /\ Cardinality(Engaged) \in Nat /\ Cardinality(Engaged') \in Nat
          /\ Cardinality(Engaged') = Cardinality(Engaged) + 1
      BY ONLY <1>0, <3>1, w \in Workers, EngagedMoves
    <3> QED BY <1>0, <1>q, <1>2, <2>1, <3>2 DEF Acquire, SlotBound
  <2> QED BY <2>2, <2>3, <2>4 DEF IInv
<1>3. ASSUME QueueTimeout(w) PROVE IInv'
  <2>1. TypeOK' /\ HeldWhileInHand' /\ QuietBeforeUp'
    BY <1>0, <1>3 DEF QueueTimeout, TypeOK, HeldWhileInHand, QuietBeforeUp, Started, Phases, Steps
  <2>2. Cardinality(Engaged') <= Cardinality(Engaged) /\ Cardinality(Engaged') \in Nat
        /\ Cardinality(Engaged) \in Nat
    <3>1. pc[w] = "waiting" /\ pc' = [pc EXCEPT ![w] = "idle"] /\ "idle" \in Steps
      BY <1>3 DEF QueueTimeout, Steps
    <3>2. /\ Cardinality(Engaged) \in Nat /\ Cardinality(Engaged') \in Nat
          /\ Cardinality(Engaged') = Cardinality(Engaged)
      BY ONLY <1>0, <3>1, w \in Workers, EngagedMoves
    <3> QED BY ONLY <3>2
  <2> QED BY <1>3, <2>1, <2>2, BookkeepingPreserves DEF QueueTimeout
<1>4. ASSUME NEW s \in BOOLEAN, Operate(w, s) PROVE IInv'
  <2>1. TypeOK' /\ HeldWhileInHand' /\ QuietBeforeUp'
    BY <1>0, <1>4 DEF Operate, TypeOK, HeldWhileInHand, QuietBeforeUp, Started, Phases, Steps, AllCallers
  <2>2. Cardinality(Engaged') <= Cardinality(Engaged) /\ Cardinality(Engaged') \in Nat
        /\ Cardinality(Engaged) \in Nat
    <3>1. pc[w] = "running" /\ pc' = [pc EXCEPT ![w] = "releasing"] /\ "releasing" \in Steps
      BY <1>4 DEF Operate, Steps
    <3>2. /\ Cardinality(Engaged) \in Nat /\ Cardinality(Engaged') \in Nat
          /\ Cardinality(Engaged') = Cardinality(Engaged)
      BY ONLY <1>0, <3>1, w \in Workers, EngagedMoves
    <3> QED BY ONLY <3>2
  <2> QED BY <1>4, <2>1, <2>2, BookkeepingPreserves DEF Operate
<1>5. ASSUME Release(w) PROVE IInv'
  <2>0. StrikesAfter(w) \in 0..MaxFailures - 1
    <3>1. held[w] \in Engines
      BY <1>0, <1>5 DEF Release, HeldWhileInHand, TypeOK
    <3>2. failures[held[w]] \in 0..MaxFailures - 1
      BY <1>0, <3>1 DEF TypeOK
    <3>3. CASE Keeps(w) /\ ~healthy[w]
      <4>1. ~StrikesOut(w) /\ StrikesAfter(w) = failures[held[w]] + 1
        BY <3>3 DEF Keeps, StrikesAfter
      <4> QED BY <3>2, <4>1, EnginePoolAssumption DEF StrikesOut
    <3>4. CASE ~(Keeps(w) /\ ~healthy[w])
      BY <3>4, EnginePoolAssumption DEF StrikesAfter
    <3> QED BY <3>3, <3>4
  <2>1. TypeOK' /\ HeldWhileInHand' /\ QuietBeforeUp'
    BY <1>0, <1>5, <2>0 DEF Release, TypeOK, HeldWhileInHand, QuietBeforeUp, Started, Phases, Steps
  <2>2. Cardinality(Engaged') <= Cardinality(Engaged) /\ Cardinality(Engaged') \in Nat
        /\ Cardinality(Engaged) \in Nat
    <3>1. PICK t \in {"putting", "disposing"} : pc' = [pc EXCEPT ![w] = t]
      BY <1>5 DEF Release
    <3>2. t \in Steps /\ pc[w] = "releasing"
      BY <1>5 DEF Release, Steps
    <3>3. /\ Cardinality(Engaged) \in Nat /\ Cardinality(Engaged') \in Nat
          /\ Cardinality(Engaged') = Cardinality(Engaged)
      BY ONLY <1>0, <3>1, <3>2, w \in Workers, EngagedMoves
    <3> QED BY ONLY <3>3
  <2> QED BY <1>5, <2>1, <2>2, BookkeepingPreserves DEF Release
<1>6. ASSUME Put(w) PROVE IInv'
  <2>1. held[w] \in Engines /\ held[w] \notin Queued /\ w \in Holding
    BY <1>0, <1>6 DEF Put, HeldWhileInHand, ExclusiveOwnership, Holding, TypeOK
  <2>2. /\ queue' \in Seq(Engines) /\ Len(queue') = Len(queue) + 1
        /\ Distinct(queue') /\ Elements(queue') = Queued \union {held[w]}
    BY <1>q, <1>6, <2>1, AppendNew DEF Put
  <2>3. TypeOK' /\ HeldWhileInHand' /\ QuietBeforeUp'
    BY <1>0, <1>6, <2>2 DEF Put, TypeOK, HeldWhileInHand, QuietBeforeUp, Started, Phases, Steps
  <2>4. ExclusiveOwnership'
    <3>1. Queued' = Queued \union {held[w]} /\ Distinct(queue')
      BY <2>2 DEF Queued, Elements
    <3>2. Holding' = Holding \ {w} /\ \A v \in Holding' : held'[v] = held[v]
      BY <1>0, <1>6 DEF Put, Holding, TypeOK
    <3>3. Live' = Live
      BY <1>6 DEF Put, Live
    <3> QED BY <1>0, <2>1, <3>1, <3>2, <3>3 DEF ExclusiveOwnership, Distinct
  <2>5. SlotBound'
    <3>1. pc[w] = "putting" /\ pc' = [pc EXCEPT ![w] = "idle"] /\ "idle" \in Steps
      BY <1>6 DEF Put, Steps
    <3>2. /\ Cardinality(Engaged) \in Nat /\ Cardinality(Engaged') \in Nat
          /\ Cardinality(Engaged') = Cardinality(Engaged) - 1
      BY ONLY <1>0, <3>1, w \in Workers, EngagedMoves
    <3> QED BY <1>0, <1>q, <1>6, <2>2, <3>2 DEF Put, SlotBound
  <2> QED BY <2>3, <2>4, <2>5 DEF IInv
<1>7. ASSUME Dispose(w) PROVE IInv'
  <2>1. held[w] \in Engines /\ held[w] \notin Queued /\ w \in Holding
    BY <1>0, <1>7 DEF Dispose, HeldWhileInHand, ExclusiveOwnership, Holding, TypeOK
  <2>2. TypeOK' /\ HeldWhileInHand' /\ QuietBeforeUp'
    BY <1>0, <1>7 DEF Dispose, TypeOK, HeldWhileInHand, QuietBeforeUp, Started, Phases, Steps
  <2>3. ExclusiveOwnership'
    <3>1. Queued' = Queued /\ (Distinct(queue) <=> Distinct(queue'))
      BY <1>7 DEF Dispose, Queued, Distinct
    <3>2. Holding' = Holding \ {w} /\ \A v \in Holding' : held'[v] = held[v]
      BY <1>0, <1>7 DEF Dispose, Holding, TypeOK
    <3>3. Live' = Live \ {held[w]}
      BY <1>0, <1>7, <2>1 DEF Dispose, Live, TypeOK
    <3>4. queue' = queue
      BY <1>7 DEF Dispose
    <3> QED BY <1>0, <2>1, <3>1, <3>2, <3>3, <3>4 DEF ExclusiveOwnership
  <2>4. SlotBound'
    <3>1. pc[w] = "disposing" /\ pc' = [pc EXCEPT ![w] = "respawning"] /\ "respawning" \in Steps
      BY <1>7 DEF Dispose, Steps
    <3>2. /\ Cardinality(Engaged) \in Nat /\ Cardinality(Engaged') \in Nat
          /\ Cardinality(Engaged') = Cardinality(Engaged)
      BY ONLY <1>0, <3>1, w \in Workers, EngagedMoves
    <3> QED BY <1>0, <1>q, <1>7, <3>2 DEF Dispose, SlotBound
  <2> QED BY <2>2, <2>3, <2>4 DEF IInv
<1>8. ASSUME NEW e \in Engines, Respawn(w, e) PROVE IInv'
  <2>1. e \notin Live /\ e # None /\ w \notin Holding
    BY <1>0, <1>8 DEF Respawn, Spawn, Live, HeldWhileInHand, Holding
  <2>2. TypeOK' /\ HeldWhileInHand' /\ QuietBeforeUp'
    BY <1>0, <1>8, <2>1 DEF Respawn, Spawn, TypeOK, HeldWhileInHand, QuietBeforeUp, Started, Phases, Steps
  <2>3. ExclusiveOwnership'
    <3>1. Queued' = Queued /\ queue' = queue
      BY <1>8 DEF Respawn, Queued
    <3>2. Holding' = Holding \union {w} /\ held'[w] = e /\ \A v \in Holding : held'[v] = held[v]
      BY <1>0, <1>8, <2>1 DEF Respawn, Holding, TypeOK
    <3>3. Live' = Live \union {e}
      BY <1>0, <1>8 DEF Respawn, Spawn, Live, TypeOK
    <3> QED BY <1>0, <2>1, <3>1, <3>2, <3>3 DEF ExclusiveOwnership
  <2>4. SlotBound'
    <3>1. pc[w] = "respawning" /\ pc' = [pc EXCEPT ![w] = "putting"] /\ "putting" \in Steps
      BY <1>8 DEF Respawn, Steps
    <3>2. /\ Cardinality(Engaged) \in Nat /\ Cardinality(Engaged') \in Nat
          /\ Cardinality(Engaged') = Cardinality(Engaged)
      BY ONLY <1>0, <3>1, w \in Workers, EngagedMoves
    <3> QED BY <1>0, <1>q, <1>8, <3>2 DEF Respawn, SlotBound
  <2> QED BY <2>2, <2>3, <2>4 DEF IInv
<1>9. ASSUME RespawnFails(w) PROVE IInv'
  <2>1. TypeOK' /\ HeldWhileInHand' /\ QuietBeforeUp'
    BY <1>0, <1>9 DEF RespawnFails, TypeOK, HeldWhileInHand, QuietBeforeUp, Started, Phases, Steps
  <2>2. Cardinality(Engaged') <= Cardinality(Engaged) /\ Cardinality(Engaged') \in Nat
        /\ Cardinality(Engaged) \in Nat
    <3>1. pc[w] = "respawning" /\ pc' = [pc EXCEPT ![w] = "idle"] /\ "idle" \in Steps
      BY <1>9 DEF RespawnFails, Steps
    <3>2. /\ Cardinality(Engaged) \in Nat /\ Cardinality(Engaged') \in Nat
          /\ Cardinality(Engaged') = Cardinality(Engaged) - 1
      BY ONLY <1>0, <3>1, w \in Workers, EngagedMoves
    <3> QED BY ONLY <3>2
  <2> QED BY <1>9, <2>1, <2>2, BookkeepingPreserves DEF RespawnFails
<1> QED BY <1>1, <1>2, <1>3, <1>4, <1>5, <1>6, <1>7, <1>8, <1>9 DEF Call

\* A step that moves no handle and no worker keeps ownership and slots.
LEMMA UnmovedPreserves ==
    ASSUME ExclusiveOwnership, SlotBound, queue' = queue, held' = held, pc' = pc, Live' = Live
    PROVE  ExclusiveOwnership' /\ SlotBound'
<1>1. Queued' = Queued /\ Holding' = Holding /\ Engaged' = Engaged
  BY DEF Queued, Holding, Engaged
<1>2. ExclusiveOwnership'
  BY <1>1 DEF ExclusiveOwnership
<1>3. SlotBound'
  BY <1>1 DEF SlotBound
<1> QED BY <1>2, <1>3

\* Starting and stopping the pool preserves the invariant.
LEMMA LifecyclePreserves ==
    ASSUME IInv, Lifecycle
    PROVE  IInv'
<1> USE EnginePoolAssumption
<1>0. TypeOK /\ HeldWhileInHand /\ QuietBeforeUp /\ ExclusiveOwnership /\ SlotBound
  BY DEF IInv
<1>q. /\ Len(queue) \in Nat /\ Distinct(queue) /\ Queued = Elements(queue)
      /\ queue \in Seq(Engines)
  BY <1>0, LenProperties, QueueView DEF TypeOK, ExclusiveOwnership
<1>e. Cardinality(Engaged) \in Nat
  BY FS_Subset, FS_CardinalityType DEF Engaged
<1>1. ASSUME NEW e \in Engines, StartupSpawn(e) PROVE IInv'
  <2>1. e \notin Live /\ e \notin Queued
    BY <1>0, <1>1 DEF StartupSpawn, Spawn, Live, ExclusiveOwnership
  <2>2. /\ queue' \in Seq(Engines) /\ Len(queue') = Len(queue) + 1
        /\ Distinct(queue') /\ Elements(queue') = Queued \union {e}
    BY <1>q, <1>1, <2>1, AppendNew DEF StartupSpawn
  <2>3. \A v \in Workers : pc[v] = "idle"
    BY <1>0, <1>1 DEF StartupSpawn, QuietBeforeUp, Started
  <2>4. TypeOK' /\ HeldWhileInHand' /\ QuietBeforeUp'
    BY <1>0, <1>1, <2>2, <2>3
       DEF StartupSpawn, Spawn, TypeOK, HeldWhileInHand, QuietBeforeUp, Started, Phases
  <2>5. ExclusiveOwnership'
    <3>1. Queued' = Queued \union {e} /\ Distinct(queue')
      BY <2>2 DEF Queued, Elements
    <3>2. Holding' = Holding /\ held' = held
      BY <1>1 DEF StartupSpawn, Holding
    <3>3. Live' = Live \union {e}
      BY <1>0, <1>1 DEF StartupSpawn, Spawn, Live, TypeOK
    <3>4. Holding = {}
      BY <1>0, <2>3 DEF HeldWhileInHand, Holding
    <3> QED BY <1>0, <3>1, <3>2, <3>3, <3>4 DEF ExclusiveOwnership, Distinct
  <2>6. SlotBound'
    <3>1. Engaged' = {} /\ Cardinality({}) = 0
      BY <1>1, <2>3, FS_EmptySet DEF StartupSpawn, Engaged
    <3> QED BY <1>1, <1>q, <2>2, <3>1 DEF StartupSpawn, SlotBound
  <2> QED BY <2>4, <2>5, <2>6 DEF IInv
<1>2. ASSUME StartupFails \/ CloseBegins \/ CloseTests PROVE IInv'
  <2>1. TypeOK' /\ HeldWhileInHand' /\ QuietBeforeUp'
    BY <1>0, <1>2 DEF StartupFails, CloseBegins, CloseTests, TypeOK, HeldWhileInHand,
                      QuietBeforeUp, Started, Phases
  <2>2. ExclusiveOwnership' /\ SlotBound'
    BY <1>0, <1>2, UnmovedPreserves DEF StartupFails, CloseBegins, CloseTests, Live
  <2> QED BY <2>1, <2>2 DEF IInv
<1>3. ASSUME ClosePops, queue = <<>> PROVE IInv'
  <2>1. TypeOK' /\ HeldWhileInHand' /\ QuietBeforeUp'
    BY <1>0, <1>3 DEF ClosePops, TypeOK, HeldWhileInHand, QuietBeforeUp, Started, Phases
  <2>2. ExclusiveOwnership' /\ SlotBound'
    BY <1>0, <1>3, UnmovedPreserves DEF ClosePops, Live
  <2> QED BY <2>1, <2>2 DEF IInv
<1>4. ASSUME ClosePops, queue # <<>> PROVE IInv'
  <2>1. /\ Head(queue) \in Engines /\ Tail(queue) \in Seq(Engines)
        /\ Len(Tail(queue)) = Len(queue) - 1 /\ Distinct(Tail(queue))
        /\ Head(queue) \in Queued /\ Elements(Tail(queue)) = Queued \ {Head(queue)}
    BY <1>q, <1>4, TakeHead
  <2>2. TypeOK' /\ HeldWhileInHand' /\ QuietBeforeUp'
    BY <1>0, <1>4, <2>1 DEF ClosePops, TypeOK, HeldWhileInHand, QuietBeforeUp, Started, Phases
  <2>3. ExclusiveOwnership'
    <3>1. Queued' = Queued \ {Head(queue)} /\ Distinct(queue')
      BY <1>4, <2>1 DEF ClosePops, Queued, Elements
    <3>2. Holding' = Holding /\ held' = held
      BY <1>4 DEF ClosePops, Holding
    <3>3. Live' = Live \ {Head(queue)}
      BY <1>0, <1>4, <2>1 DEF ClosePops, Live, TypeOK
    <3> QED BY <1>0, <2>1, <3>1, <3>2, <3>3 DEF ExclusiveOwnership, Distinct
  <2>4. SlotBound'
    <3>1. Engaged' = Engaged
      BY <1>4 DEF ClosePops, Engaged
    <3> QED BY <1>0, <1>q, <1>e, <1>4, <2>1, <3>1 DEF ClosePops, SlotBound
  <2> QED BY <2>2, <2>3, <2>4 DEF IInv
<1> QED BY <1>1, <1>2, <1>3, <1>4 DEF Lifecycle

\* An engine that hangs or dies stays where it is.
LEMMA EnvironmentPreserves ==
    ASSUME IInv, Environment
    PROVE  IInv'
<1>0. TypeOK /\ HeldWhileInHand /\ QuietBeforeUp /\ ExclusiveOwnership /\ SlotBound
  BY DEF IInv
<1>1. PICK e \in Engines : Hang(e) \/ Crash(e)
  BY DEF Environment
<1>2. TypeOK' /\ HeldWhileInHand' /\ QuietBeforeUp'
  BY <1>0, <1>1 DEF Hang, Crash, TypeOK, HeldWhileInHand, QuietBeforeUp, Started
<1>3. Live' = Live
  BY <1>0, <1>1 DEF Hang, Crash, Live, TypeOK
<1>4. ExclusiveOwnership' /\ SlotBound'
  BY <1>0, <1>1, <1>3, UnmovedPreserves DEF Hang, Crash
<1> QED BY <1>2, <1>4 DEF IInv

\* Every step of the pool, its callers and its engines preserves the invariant.
LEMMA StepPreserves == IInv /\ [Next]_vars => IInv'
<1> SUFFICES ASSUME IInv, [Next]_vars PROVE IInv'
  OBVIOUS
<1>1. CASE Next
  BY <1>1, CallPreserves, LifecyclePreserves, EnvironmentPreserves DEF Next
<1>2. CASE UNCHANGED vars
  <2>1. TypeOK' /\ HeldWhileInHand' /\ QuietBeforeUp'
    BY <1>2 DEF vars, IInv, TypeOK, HeldWhileInHand, QuietBeforeUp, Started
  <2>2. ExclusiveOwnership' /\ SlotBound'
    BY <1>2, UnmovedPreserves DEF vars, IInv, Live
  <2> QED BY <2>1, <2>2 DEF IInv
<1> QED BY <1>1, <1>2

\* The strengthened invariant holds in every reachable state.
THEOREM Invariance == Spec => []IInv
<1>1. IInv /\ [Next]_vars => IInv'
  BY StepPreserves
<1> QED BY InitInvariant, <1>1, PTL DEF Spec

\* The variables stay within their types.
THEOREM TypeCorrect == Spec => []TypeOK
BY Invariance, PTL DEF IInv

\* Exclusive ownership of the engine handles, for every pool: a handle the
\* queue hands out is in one place only, and no live subprocess is forgotten.
THEOREM HandlesExclusive == Spec => []ExclusiveOwnership
BY Invariance, PTL DEF IInv

\* A release never blocks on a full queue, whatever the threads, the engines
\* and the shutdown do.
THEOREM PutNeverBlocksEver == Spec => []PutNeverBlocks
<1>1. IInv => PutNeverBlocks
  <2> SUFFICES ASSUME IInv PROVE PutNeverBlocks
    OBVIOUS
  <2>1. Len(queue) \in Nat /\ SlotBound
    BY LenProperties DEF IInv, TypeOK
  <2>2. IsFiniteSet(Engaged) /\ Cardinality(Engaged) \in Nat
    BY EnginePoolAssumption, FS_Subset, FS_CardinalityType DEF Engaged
  <2>3. ASSUME NEW w \in Workers, pc[w] = "putting" PROVE Len(queue) < PoolSize
    <3>1. Engaged # {}
      BY <2>3 DEF Engaged
    <3>2. Cardinality(Engaged) # 0
      BY <2>2, <3>1, FS_EmptySet
    <3> QED BY <2>1, <2>2, <3>2, EnginePoolAssumption DEF SlotBound
  <2> QED BY <2>1, <2>3 DEF PutNeverBlocks, SlotBound
<1> QED BY Invariance, <1>1, PTL

\* All that the run checks of the slots, for every pool and whoever calls it.
THEOREM PoolIsSafe == Spec => []PoolSafe
BY TypeCorrect, HandlesExclusive, PutNeverBlocksEver, PTL DEF PoolSafe

-----------------------------------------------------------------------------
(* Refinement *)

\* Only taking, returning and forfeiting an engine move a worker in or out of
\* the engaged set.
LEMMA EngagedUnmoved ==
    ASSUME TypeOK, NEW w \in Workers, NEW s \in Steps, pc' = [pc EXCEPT ![w] = s],
           pc[w] \in {"idle", "waiting"} <=> s \in {"idle", "waiting"}
    PROVE  Engaged' = Engaged
BY DEF TypeOK, Engaged, Steps

\* A worker's step is a step of the semaphore, or leaves it alone.
LEMMA CallRefines ==
    ASSUME IInv, NEW w \in Workers, Call(w)
    PROVE  [Slots!SlotNext]_(Slots!slotVars)
<1>0. TypeOK /\ Len(queue) \in Nat /\ queue \in Seq(Engines)
  BY LenProperties DEF IInv, TypeOK
<1>1. ASSUME \/ \E k \in AllCallers : Request(w, k)
             \/ QueueTimeout(w)
             \/ \E s \in BOOLEAN : Operate(w, s)
             \/ Release(w) \/ Dispose(w)
             \/ \E e \in Engines : Respawn(w, e)
      PROVE  UNCHANGED Slots!slotVars
  <2>1. queue' = queue
    BY <1>1 DEF Request, QueueTimeout, Operate, Release, Dispose, Respawn
  <2>2. PICK s \in Steps : /\ pc' = [pc EXCEPT ![w] = s]
                           /\ pc[w] \in {"idle", "waiting"} <=> s \in {"idle", "waiting"}
    BY <1>1 DEF Request, QueueTimeout, Operate, Release, Dispose, Respawn, Steps
  <2>3. Engaged' = Engaged
    BY <1>0, <2>2, EngagedUnmoved
  <2> QED BY <2>1, <2>3 DEF Slots!slotVars
<1>2. ASSUME Acquire(w) PROVE Slots!Take(w)
  <2>1. Len(queue') = Len(queue) - 1 /\ Len(queue) > 0
    BY <1>0, <1>2, HeadTailProperties, EmptySeq DEF Acquire
  <2>2. Engaged' = Engaged \union {w} /\ w \notin Engaged
    BY <1>0, <1>2 DEF Acquire, Engaged, TypeOK, Steps
  <2> QED BY <2>1, <2>2 DEF Slots!Take
<1>3. ASSUME Put(w) PROVE Slots!GiveBack(w)
  <2>1. held[w] \in Engines
    BY <1>3 DEF Put, IInv, HeldWhileInHand, TypeOK
  <2>2. Len(queue') = Len(queue) + 1
    BY <1>0, <1>3, <2>1, AppendProperties DEF Put
  <2>3. Engaged' = Engaged \ {w} /\ w \in Engaged
    BY <1>0, <1>3 DEF Put, Engaged, TypeOK, Steps
  <2> QED BY <2>2, <2>3 DEF Slots!GiveBack
<1>4. ASSUME RespawnFails(w) PROVE Slots!Lose(w)
  <2>1. Engaged' = Engaged \ {w} /\ w \in Engaged /\ queue' = queue
    BY <1>0, <1>4 DEF RespawnFails, Engaged, TypeOK, Steps
  <2> QED BY <2>1 DEF Slots!Lose
<1> QED BY <1>1, <1>2, <1>3, <1>4 DEF Call, Slots!SlotNext

\* So is a step of startup or of close.
LEMMA LifecycleRefines ==
    ASSUME IInv, IInv', Lifecycle
    PROVE  [Slots!SlotNext]_(Slots!slotVars)
<1>0. TypeOK /\ Len(queue) \in Nat /\ queue \in Seq(Engines)
  BY LenProperties DEF IInv, TypeOK
<1>p. pc' = pc /\ Engaged' = Engaged
  BY DEF Lifecycle, StartupFails, CloseBegins, CloseTests, ClosePops, StartupSpawn, Engaged
<1>1. ASSUME StartupFails \/ CloseBegins \/ CloseTests PROVE UNCHANGED Slots!slotVars
  BY <1>1, <1>p DEF StartupFails, CloseBegins, CloseTests, Slots!slotVars
<1>2. ASSUME NEW e \in Engines, StartupSpawn(e) PROVE Slots!Supply
  <2>1. Len(queue') = Len(queue) + 1
    BY <1>0, <1>2, AppendProperties DEF StartupSpawn
  <2>2. Cardinality(Engaged) \in Nat
    BY EnginePoolAssumption, FS_Subset, FS_CardinalityType DEF Engaged
  <2>3. Len(queue') + Cardinality(Engaged) <= PoolSize
    BY <1>p DEF IInv, SlotBound
  <2>4. Len(queue) + Cardinality(Engaged) < PoolSize
    BY <1>0, <2>1, <2>2, <2>3, EnginePoolAssumption
  <2>5. Slots!Cardinality(Engaged) = Cardinality(Engaged)
    BY DEF Slots!Cardinality, Cardinality
  <2> QED BY <1>p, <2>1, <2>4, <2>5 DEF Slots!Supply, Slots!InUse
<1>3. ASSUME ClosePops PROVE Slots!Drain \/ UNCHANGED Slots!slotVars
  <2>1. CASE queue = <<>>
    BY <1>3, <1>p, <2>1 DEF ClosePops, Slots!slotVars
  <2>2. CASE queue # <<>>
    <3>1. Len(queue') = Len(queue) - 1 /\ Len(queue) > 0
      BY <1>0, <1>3, <2>2, HeadTailProperties, EmptySeq DEF ClosePops
    <3>2. Slots!Drain
      BY <1>p, <3>1 DEF Slots!Drain
    <3> QED BY <3>2
  <2> QED BY <2>1, <2>2
<1> QED BY <1>1, <1>2, <1>3 DEF Lifecycle, Slots!SlotNext

\* The pool, with its strikes, evictions, crashes and shutdown races, behaves
\* for its callers as a bounded semaphore of engines.
THEOREM PoolRefinesSlotPool == Spec => ImplementsSlotPool
<1>1. Init => Slots!SlotInit
  <2> SUFFICES ASSUME Init PROVE Slots!SlotInit
    OBVIOUS
  <2>1. Engaged = {} /\ Len(queue) = 0
    BY EmptySeq DEF Init, Engaged
  <2> QED BY <2>1 DEF Slots!SlotInit
<1>2. IInv /\ IInv' /\ [Next]_vars => [Slots!SlotNext]_(Slots!slotVars)
  <2> SUFFICES ASSUME IInv, IInv', [Next]_vars
               PROVE  [Slots!SlotNext]_(Slots!slotVars)
    OBVIOUS
  <2>1. ASSUME Environment \/ UNCHANGED vars PROVE UNCHANGED Slots!slotVars
    BY <2>1 DEF Environment, Hang, Crash, vars, Slots!slotVars, Engaged
  <2> QED BY <2>1, CallRefines, LifecycleRefines DEF Next
<1> QED BY <1>1, <1>2, Invariance, PTL DEF Spec, ImplementsSlotPool, Slots!SlotSpec

-----------------------------------------------------------------------------
(* Strikes *)

\* The handles with an engine or with strikes left of one, and the workers
\* that owe the pool an engine.
Known == {e \in Engines : failures[e] > 0 \/ health[e] # "none"}
Owing == {w \in Workers : pc[w] = "respawning"}

\* Each of them stands for a slot: strikes outlive only a handle that close()
\* quits, whose slot is gone with it.
KnownFit ==
    /\ IsFiniteSet(Known)
    /\ Cardinality(Known) + Cardinality(Owing) <= PoolSize
    /\ phase = "starting" => Cardinality(Known) <= Len(queue)
    /\ \A w \in Workers : pc[w] = "disposing" => failures[held[w]] = 0

\* What a worker's flag and its handle's strikes say of the operations that failed.
StrikesFit(w) ==
    /\ pc[w] \in {"running", "putting"} => failures[held[w]] = losses[held[w]]
    /\ pc[w] = "releasing" =>
         losses[held[w]] = IF healthy[w] THEN 0 ELSE failures[held[w]] + 1
    /\ pc[w] = "disposing" =>
         health[held[w]] = "dead" \/ losses[held[w]] >= MaxFailures

\* Until close() begins, and through the pool's own operations.
Counted ==
    phase \in {"starting", "up"} =>
        /\ \A e \in Engines : health[e] = "none" => failures[e] = 0
        /\ \A e \in Queued : failures[e] = losses[e]
        /\ \A w \in Workers : StrikesFit(w)

\* Fewer handles with strikes, and no more slots owed.
LEMMA FewerKnown ==
    ASSUME KnownFit, Known' \subseteq Known, Owing' \subseteq Owing,
           phase' # "starting",
           \A w \in Workers : pc'[w] = "disposing" => failures'[held'[w]] = 0
    PROVE  KnownFit'
<1>1. IsFiniteSet(Known') /\ Cardinality(Known') <= Cardinality(Known)
  BY FS_Subset DEF KnownFit
<1>2. IsFiniteSet(Owing) /\ Cardinality(Owing') <= Cardinality(Owing)
  BY EnginePoolAssumption, FS_Subset DEF Owing
<1>3. /\ Cardinality(Known) \in Nat /\ Cardinality(Known') \in Nat
      /\ Cardinality(Owing) \in Nat /\ Cardinality(Owing') \in Nat
  BY <1>1, <1>2, FS_Subset, FS_CardinalityType DEF KnownFit
<1>4. Cardinality(Known') + Cardinality(Owing') <= PoolSize
  BY <1>1, <1>2, <1>3, EnginePoolAssumption DEF KnownFit
<1> QED BY <1>1, <1>4 DEF KnownFit

\* No handle has strikes before the pool starts.
LEMMA InitKnown == Init => KnownFit
<1> SUFFICES ASSUME Init PROVE KnownFit
  OBVIOUS
<1>1. Known = {} /\ Owing = {} /\ Len(queue) = 0
  BY EmptySeq DEF Init, Known, Owing
<1>2. \A w \in Workers : pc[w] # "disposing"
  BY DEF Init
<1> QED BY <1>1, <1>2, FS_EmptySet, EnginePoolAssumption DEF KnownFit

\* A worker's step keeps the handles with strikes within the pool.
LEMMA CallKeepsKnown ==
    ASSUME IInv, KnownFit, NEW w \in Workers, Call(w)
    PROVE  KnownFit'
<1>0. /\ TypeOK /\ HeldWhileInHand /\ QuietBeforeUp /\ ExclusiveOwnership
      /\ \A v \in Workers : pc[v] = "disposing" => failures[held[v]] = 0
  BY DEF IInv, KnownFit
<1>1. CASE \/ \E k \in AllCallers : Request(w, k)
           \/ Acquire(w) \/ QueueTimeout(w) \/ Put(w) \/ RespawnFails(w)
           \/ \E s \in BOOLEAN : Operate(w, s)
  <2>1. failures' = failures /\ health' = health /\ phase' = phase
    BY <1>1 DEF Request, Acquire, QueueTimeout, Put, RespawnFails, Operate
  <2>2. PICK s \in {"idle", "waiting", "running", "releasing"} : pc' = [pc EXCEPT ![w] = s]
    BY <1>1 DEF Request, Acquire, QueueTimeout, Put, RespawnFails, Operate
  <2>3. \A v \in Workers \ {w} : held'[v] = held[v]
    BY <1>0, <1>1 DEF Request, Acquire, QueueTimeout, Put, RespawnFails, Operate, TypeOK
  <2>4. Known' = Known /\ Owing' \subseteq Owing
    BY <1>0, <2>1, <2>2 DEF Known, Owing, TypeOK
  <2>5. phase # "starting"
    BY <1>0, <1>1 DEF QuietBeforeUp, Started, Request, Acquire, QueueTimeout, Put, RespawnFails, Operate
  <2>6. \A v \in Workers : pc'[v] = "disposing" => v # w /\ pc[v] = "disposing"
    BY <1>0, <2>2 DEF TypeOK
  <2>7. \A v \in Workers : pc'[v] = "disposing" => failures'[held'[v]] = 0
    BY <1>0, <2>1, <2>3, <2>6
  <2> QED BY <2>1, <2>4, <2>5, <2>7, FewerKnown
<1>2. CASE Release(w)
  <2>1. held[w] \in Engines /\ health[held[w]] # "none"
    BY <1>0, <1>2 DEF Release, HeldWhileInHand, TypeOK, ExclusiveOwnership, Holding, Live
  <2>2. PICK n \in Int : failures' = [failures EXCEPT ![held[w]] = n] /\ n = StrikesAfter(w)
    <3>1. failures[held[w]] \in Int /\ StrikesAfter(w) \in {0, failures[held[w]] + 1}
      BY <1>0, <2>1, EnginePoolAssumption DEF StrikesAfter, TypeOK
    <3>2. StrikesAfter(w) \in Int
      BY <3>1
    <3> QED BY <1>2, <3>2 DEF Release
  <2>3. health' = health /\ held' = held /\ phase' = phase /\ phase # "starting"
    BY <1>0, <1>2 DEF Release, QuietBeforeUp, Started
  <2>4. Known' = Known
    BY <1>0, <2>1, <2>2, <2>3 DEF Known, TypeOK
  <2>5. Owing' \subseteq Owing
    BY <1>0, <1>2 DEF Release, Owing, TypeOK
  <2>6. ASSUME NEW v \in Workers, pc'[v] = "disposing" PROVE failures'[held'[v]] = 0
    <3>1. CASE v = w
      <4>1. ~Keeps(w)
        BY <1>0, <1>2, <2>6, <3>1 DEF Release, TypeOK
      <4> QED BY <1>0, <2>1, <2>2, <2>3, <3>1, <4>1 DEF StrikesAfter, TypeOK
    <3>2. CASE v # w
      <4>1. pc[v] = "disposing"
        BY <1>0, <1>2, <2>6, <3>2 DEF Release, TypeOK
      <4>2. held[v] # held[w] /\ held[v] \in Engines
        BY <1>0, <1>2, <2>1, <3>2, <4>1 DEF Release, HeldWhileInHand, ExclusiveOwnership, Holding, TypeOK
      <4> QED BY <1>0, <2>1, <2>2, <2>3, <4>1, <4>2 DEF TypeOK
    <3> QED BY <3>1, <3>2
  <2> QED BY <2>3, <2>4, <2>5, <2>6, FewerKnown
<1>3. CASE Dispose(w)
  <2>1. /\ pc[w] = "disposing" /\ held[w] \in Engines /\ health[held[w]] # "none"
        /\ failures[held[w]] = 0 /\ phase' = phase /\ phase # "starting" /\ failures' = failures
    BY <1>0, <1>3 DEF Dispose, HeldWhileInHand, TypeOK, ExclusiveOwnership, Holding, Live,
                      QuietBeforeUp, Started
  <2>2. Known' = Known \ {held[w]} /\ held[w] \in Known
    BY <1>0, <1>3, <2>1 DEF Dispose, Known, TypeOK
  <2>3. Owing' = Owing \union {w} /\ w \notin Owing
    BY <1>0, <1>3, <2>1 DEF Dispose, Owing, TypeOK
  <2>4. /\ IsFiniteSet(Known) /\ IsFiniteSet(Owing)
        /\ Cardinality(Known) \in Nat /\ Cardinality(Owing) \in Nat
        /\ Cardinality(Known) + Cardinality(Owing) <= PoolSize
    BY EnginePoolAssumption, FS_Subset, FS_CardinalityType DEF Owing, KnownFit
  <2>5. IsFiniteSet(Known') /\ Cardinality(Known') = Cardinality(Known) - 1
    BY <2>2, <2>4, FS_RemoveElement
  <2>6. Cardinality(Owing') = Cardinality(Owing) + 1
    BY <2>3, <2>4, FS_AddElement
  <2>7. Cardinality(Known') + Cardinality(Owing') <= PoolSize
    BY <2>4, <2>5, <2>6, EnginePoolAssumption
  <2>8. ASSUME NEW v \in Workers, pc'[v] = "disposing" PROVE failures'[held'[v]] = 0
    <3>1. v # w /\ pc[v] = "disposing" /\ held'[v] = held[v]
      BY <1>0, <1>3, <2>8 DEF Dispose, TypeOK
    <3> QED BY <1>0, <2>1, <3>1
  <2> QED BY <2>1, <2>5, <2>7, <2>8 DEF KnownFit
<1>4. CASE \E e \in Engines : Respawn(w, e)
  <2>1. PICK e \in Engines : Respawn(w, e)
    BY <1>4
  <2>2. pc[w] = "respawning" /\ phase' = phase /\ phase # "starting" /\ failures' = failures
    BY <1>0, <2>1 DEF Respawn, QuietBeforeUp, Started
  <2>3. Known' = Known \union {e}
    BY <1>0, <2>1, <2>2 DEF Respawn, Spawn, Known, TypeOK
  <2>4. Owing' = Owing \ {w} /\ w \in Owing
    BY <1>0, <2>1, <2>2 DEF Respawn, Owing, TypeOK
  <2>5. /\ IsFiniteSet(Known) /\ IsFiniteSet(Owing)
        /\ Cardinality(Known) \in Nat /\ Cardinality(Owing) \in Nat
        /\ Cardinality(Known) + Cardinality(Owing) <= PoolSize
    BY EnginePoolAssumption, FS_Subset, FS_CardinalityType DEF Owing, KnownFit
  <2>6. IsFiniteSet(Known') /\ Cardinality(Known') \in Nat /\ Cardinality(Known') <= Cardinality(Known) + 1
    <3>1. /\ IsFiniteSet(Known \union {e})
          /\ Cardinality(Known \union {e}) = Cardinality(Known) \/ Cardinality(Known \union {e}) = Cardinality(Known) + 1
      BY <2>5, FS_AddElement
    <3> QED BY <2>3, <2>5, <3>1, FS_CardinalityType
  <2>7. Cardinality(Owing') = Cardinality(Owing) - 1
    BY <2>4, <2>5, FS_RemoveElement
  <2>8. Cardinality(Known') + Cardinality(Owing') <= PoolSize
    BY <2>5, <2>6, <2>7, EnginePoolAssumption
  <2>9. ASSUME NEW v \in Workers, pc'[v] = "disposing" PROVE failures'[held'[v]] = 0
    <3>1. v # w /\ pc[v] = "disposing" /\ held'[v] = held[v]
      BY <1>0, <2>1, <2>9 DEF Respawn, TypeOK
    <3> QED BY <1>0, <2>2, <3>1
  <2> QED BY <2>2, <2>6, <2>8, <2>9 DEF KnownFit
<1> QED BY <1>1, <1>2, <1>3, <1>4 DEF Call

\* So does a step of startup, of close or of an engine.
LEMMA OthersKeepKnown ==
    ASSUME IInv, KnownFit, Lifecycle \/ Environment \/ UNCHANGED vars
    PROVE  KnownFit'
<1>0. TypeOK /\ QuietBeforeUp /\ queue \in Seq(Engines) /\ Len(queue) \in Nat
  BY LenProperties DEF IInv, TypeOK
<1>1. CASE \E e \in Engines : StartupSpawn(e)
  <2>1. PICK e \in Engines : StartupSpawn(e)
    BY <1>1
  <2>2. phase = "starting" /\ Len(queue) < PoolSize /\ failures' = failures /\ pc' = pc
        /\ (\A v \in Workers : pc[v] = "idle") /\ Len(queue') = Len(queue) + 1
    BY <1>0, <2>1, AppendProperties DEF StartupSpawn, QuietBeforeUp, Started
  <2>3. Known' = Known \union {e}
    BY <1>0, <2>1, <2>2 DEF StartupSpawn, Spawn, Known, TypeOK
  <2>4. Owing' = {} /\ Cardinality({}) = 0
    BY <2>2, FS_EmptySet DEF Owing
  <2>5. IsFiniteSet(Known) /\ Cardinality(Known) \in Nat /\ Cardinality(Known) <= Len(queue)
    BY <2>2, FS_CardinalityType DEF KnownFit
  <2>6. IsFiniteSet(Known') /\ Cardinality(Known') \in Nat /\ Cardinality(Known') <= Cardinality(Known) + 1
    <3>1. /\ IsFiniteSet(Known \union {e})
          /\ Cardinality(Known \union {e}) = Cardinality(Known) \/ Cardinality(Known \union {e}) = Cardinality(Known) + 1
      BY <2>5, FS_AddElement
    <3> QED BY <2>3, <2>5, <3>1, FS_CardinalityType
  <2>7. Cardinality(Known') <= Len(queue') /\ Cardinality(Known') + Cardinality(Owing') <= PoolSize
    BY <1>0, <2>2, <2>4, <2>5, <2>6, EnginePoolAssumption
  <2>8. \A v \in Workers : pc'[v] # "disposing"
    BY <2>2
  <2> QED BY <2>6, <2>7, <2>8 DEF KnownFit
<1>2. CASE \/ StartupFails \/ CloseBegins \/ CloseTests \/ ClosePops \/ Environment
  <2>1. /\ failures' = failures /\ pc' = pc /\ held' = held
        /\ phase' = "starting" => phase = "starting" /\ queue' = queue
    BY <1>2 DEF StartupFails, CloseBegins, CloseTests, ClosePops, Environment, Hang, Crash
  <2>3. \A e \in Engines : health'[e] # "none" => health[e] # "none"
    <3>1. CASE queue # <<>> /\ ClosePops
      BY <1>0, <3>1, HeadTailProperties, EmptySeq DEF ClosePops, TypeOK
    <3>2. CASE ~(queue # <<>> /\ ClosePops)
      BY <1>0, <1>2, <3>2 DEF StartupFails, CloseBegins, CloseTests, ClosePops, Environment, Hang, Crash, TypeOK
    <3> QED BY <3>1, <3>2
  <2>4. Known' \subseteq Known /\ Owing' = Owing
    BY <2>1, <2>3 DEF Known, Owing
  <2>5. IsFiniteSet(Known') /\ Cardinality(Known') <= Cardinality(Known)
        /\ Cardinality(Known) \in Nat /\ Cardinality(Known') \in Nat /\ Cardinality(Owing) \in Nat
    BY <2>4, EnginePoolAssumption, FS_Subset, FS_CardinalityType DEF KnownFit, Owing
  <2> QED BY <1>0, <2>1, <2>4, <2>5, EnginePoolAssumption DEF KnownFit
<1>3. CASE UNCHANGED vars
  BY <1>3 DEF vars, KnownFit, Known, Owing
<1> QED BY <1>1, <1>2, <1>3 DEF Lifecycle

\* pool.py 473-475: the dict of strikes never has more entries than the pool
\* has slots, whoever calls and whatever close() leaves in it.
THEOREM StrikeEntriesFit == Spec => []StrikeEntriesBounded
<1>1. Init => KnownFit
  BY InitKnown
<1>2. IInv /\ KnownFit /\ [Next]_vars => KnownFit'
  BY CallKeepsKnown, OthersKeepKnown DEF Next
<1>3. IInv /\ KnownFit => StrikeEntriesBounded
  <2> SUFFICES ASSUME IInv, KnownFit PROVE StrikeEntriesBounded
    OBVIOUS
  <2> DEFINE S == {e \in Engines : failures[e] > 0}
  <2>1. IsFiniteSet(S) /\ Cardinality(S) <= Cardinality(Known) /\ Cardinality(S) \in Nat
    BY FS_Subset, FS_CardinalityType DEF KnownFit, Known
  <2>2. Cardinality(Known) \in Nat /\ Cardinality(Owing) \in Nat
        /\ Cardinality(Known) + Cardinality(Owing) <= PoolSize
    BY EnginePoolAssumption, FS_Subset, FS_CardinalityType DEF Owing, KnownFit
  <2>3. Cardinality(S) <= PoolSize
    BY <2>1, <2>2, EnginePoolAssumption
  <2> QED BY <2>3 DEF StrikeEntriesBounded
<1> QED BY <1>1, <1>2, <1>3, Invariance, PTL DEF Spec

\* A worker's step keeps the strikes of every handle right.
LEMMA CallKeepsCount ==
    ASSUME IInv, KnownFit, Counted, \A v \in Workers : caller[v] = "pooled",
           NEW w \in Workers, Call(w), phase = "up"
    PROVE  Counted'
<1>0. /\ TypeOK /\ HeldWhileInHand /\ ExclusiveOwnership
      /\ \A e \in Engines : health[e] = "none" => failures[e] = 0
      /\ \A e \in Queued : e \in Engines /\ health[e] # "none" /\ failures[e] = losses[e]
      /\ \A v \in Workers : StrikesFit(v)
      /\ \A e \in Engines : failures[e] \in Int /\ losses[e] \in Int
  <2>1. TypeOK /\ HeldWhileInHand /\ ExclusiveOwnership
    BY DEF IInv
  <2>2. \A e \in Engines : failures[e] \in Int /\ losses[e] \in Int
    BY <2>1, EnginePoolAssumption DEF TypeOK
  <2> QED BY <2>1, <2>2 DEF Counted, ExclusiveOwnership, Live
<1>1. \A v \in Holding : held[v] \in Engines /\ health[held[v]] # "none" /\ held[v] \notin Queued
  BY <1>0 DEF Holding, TypeOK, ExclusiveOwnership, Live
<1>2. \A v \in Workers : pc[v] \in {"running", "releasing", "putting", "disposing"} => v \in Holding
  BY <1>0 DEF HeldWhileInHand, Holding
\* Another worker and its handle are where they were.
<1>o. ASSUME NEW v \in Workers, v # w,
             pc'[v] = pc[v], held'[v] = held[v], healthy'[v] = healthy[v],
             pc[v] \in {"running", "releasing", "putting", "disposing"} =>
               /\ failures'[held[v]] = failures[held[v]] /\ losses'[held[v]] = losses[held[v]]
               /\ health'[held[v]] = health[held[v]]
      PROVE  StrikesFit(v)'
  BY <1>0, <1>o DEF StrikesFit
<1>3. CASE \/ \E k \in AllCallers : Request(w, k)
           \/ QueueTimeout(w) \/ RespawnFails(w)
  <2>1. UNCHANGED <<queue, failures, health, held, healthy, losses>>
    BY <1>3 DEF Request, QueueTimeout, RespawnFails
  <2>2. PICK s \in {"idle", "waiting"} : pc' = [pc EXCEPT ![w] = s]
    BY <1>3 DEF Request, QueueTimeout, RespawnFails
  <2>3. pc'[w] \in {"idle", "waiting"} /\ \A v \in Workers \ {w} : pc'[v] = pc[v]
    BY <1>0, <2>2 DEF TypeOK
  <2>4. \A v \in Workers : StrikesFit(v)'
    BY <1>o, <2>1, <2>3 DEF StrikesFit
  <2>5. Queued' = Queued
    BY <2>1 DEF Queued
  <2> QED BY <1>0, <2>1, <2>4, <2>5 DEF Counted
<1>4. CASE Acquire(w)
  <2>1. /\ Head(queue) \in Queued /\ Queued' = Queued \ {Head(queue)}
    <3>1. queue \in Seq(Engines) /\ queue # <<>> /\ queue' = Tail(queue) /\ Distinct(queue)
      BY <1>0, <1>4, QueueView DEF Acquire, TypeOK, ExclusiveOwnership
    <3>2. Head(queue) \in Elements(queue) /\ Elements(Tail(queue)) = Elements(queue) \ {Head(queue)}
      BY ONLY <3>1, TakeHead
    <3> QED BY <3>1, <3>2, QueueView DEF Queued, Elements
  <2>2. /\ failures' = failures /\ losses' = losses /\ health' = health /\ healthy' = healthy
        /\ pc'[w] = "running" /\ held'[w] = Head(queue)
        /\ \A v \in Workers \ {w} : pc'[v] = pc[v] /\ held'[v] = held[v]
    BY <1>0, <1>4 DEF Acquire, TypeOK
  <2>3. StrikesFit(w)'
    BY <1>0, <2>1, <2>2 DEF StrikesFit
  <2>4. \A v \in Workers : StrikesFit(v)'
    BY <1>o, <2>2, <2>3
  <2> QED BY <1>0, <2>1, <2>2, <2>4 DEF Counted
<1>5. CASE \E s \in BOOLEAN : Operate(w, s)
  <2>1. PICK s \in BOOLEAN : Operate(w, s)
    BY <1>5
  <2> DEFINE h == held[w]
  <2>2. h \in Engines /\ h \notin Queued /\ w \in Holding /\ failures[h] = losses[h] /\ failures[h] < MaxFailures
    <3>1. h \in Engines /\ h \notin Queued /\ w \in Holding /\ failures[h] = losses[h]
      BY <1>0, <1>1, <1>2, <2>1 DEF Operate, StrikesFit
    <3>2. failures[h] \in 0..MaxFailures - 1
      BY <1>0, <3>1 DEF TypeOK
    <3> QED BY <3>1, <3>2, EnginePoolAssumption
  <2>3. PICK n \in Int : losses' = [losses EXCEPT ![h] = n] /\ n = IF s THEN 0 ELSE failures[h] + 1
    <3>1. losses[h] # MaxFailures
      BY <1>0, <2>2, EnginePoolAssumption
    <3>2. (IF s THEN 0 ELSE failures[h] + 1) \in Int
      BY <1>0, <2>2
    <3> QED BY <2>1, <2>2, <3>1, <3>2 DEF Operate
  <2>4. /\ UNCHANGED <<queue, failures, health, held>>
        /\ healthy' = [healthy EXCEPT ![w] = s] /\ pc' = [pc EXCEPT ![w] = "releasing"]
    <3>1. caller[w] # "direct"
      OBVIOUS
    <3> QED BY <2>1, <3>1 DEF Operate
  <2>5. \A e \in Engines : losses'[e] = IF e = h THEN n ELSE losses[e]
    BY <1>0, <2>2, <2>3 DEF TypeOK
  <2>6. /\ pc'[w] = "releasing" /\ healthy'[w] = s
        /\ \A v \in Workers \ {w} : pc'[v] = pc[v] /\ healthy'[v] = healthy[v]
    BY <1>0, <2>4 DEF TypeOK
  <2> HIDE DEF h
  <2>7. StrikesFit(w)'
    <3>1. held'[w] = h /\ failures'[h] = failures[h] /\ losses'[h] = n
      BY <2>2, <2>4, <2>5 DEF h
    <3> QED BY <2>3, <2>6, <3>1 DEF StrikesFit
  <2>8. ASSUME NEW v \in Workers, v # w PROVE StrikesFit(v)'
    <3>1. pc[v] \in {"running", "releasing", "putting", "disposing"} => held[v] # h /\ held[v] \in Engines
      BY <1>0, <1>1, <1>2, <2>2, <2>8 DEF ExclusiveOwnership, h
    <3> QED BY <1>o, <2>4, <2>5, <2>6, <2>8, <3>1
  <2>9. \A e \in Queued : losses'[e] = losses[e]
    BY <1>0, <2>2, <2>5
  <2>10. \A v \in Workers : StrikesFit(v)'
    BY <2>7, <2>8
  <2>11. Queued' = Queued
    BY <2>4 DEF Queued
  <2> QED BY <1>0, <2>4, <2>9, <2>10, <2>11 DEF Counted
<1>6. CASE Release(w)
  <2> DEFINE h == held[w]
  <2>1. /\ h \in Engines /\ h \notin Queued /\ w \in Holding /\ health[h] # "none"
        /\ losses[h] = IF healthy[w] THEN 0 ELSE failures[h] + 1
        /\ failures[h] \in Int
    BY <1>0, <1>1, <1>2, <1>6 DEF Release, StrikesFit
  <2>2. PICK n \in Int : failures' = [failures EXCEPT ![h] = n] /\ n = StrikesAfter(w)
    <3>1. StrikesAfter(w) \in {0, failures[h] + 1}
      BY DEF StrikesAfter
    <3>2. StrikesAfter(w) \in Int
      BY <2>1, <3>1
    <3> QED BY <1>6, <3>2 DEF Release
  <2>3. UNCHANGED <<queue, health, held, healthy, losses>>
    BY <1>6 DEF Release
  <2>4. \A e \in Engines : failures'[e] = IF e = h THEN n ELSE failures[e]
    BY <1>0, <2>1, <2>2 DEF TypeOK
  <2>5. /\ pc'[w] = IF Keeps(w) THEN "putting" ELSE "disposing"
        /\ \A v \in Workers \ {w} : pc'[v] = pc[v]
    BY <1>0, <1>6 DEF Release, TypeOK
  <2>6. Keeps(w) => n = losses[h]
    BY <2>1, <2>2 DEF StrikesAfter
  <2>7. ~Keeps(w) => health[h] = "dead" \/ losses[h] >= MaxFailures
    BY <2>1 DEF Keeps, StrikesOut
  <2>8. StrikesFit(w)'
    <3>1. held'[w] = h /\ failures'[h] = n /\ losses'[h] = losses[h] /\ health'[h] = health[h]
      BY <2>1, <2>3, <2>4
    <3> HIDE DEF h
    <3> QED BY <2>5, <2>6, <2>7, <3>1 DEF StrikesFit
  <2> HIDE DEF h
  <2>9. ASSUME NEW v \in Workers, v # w PROVE StrikesFit(v)'
    <3>1. pc[v] \in {"running", "releasing", "putting", "disposing"} => held[v] # h /\ held[v] \in Engines
      BY <1>0, <1>1, <1>2, <2>1, <2>9 DEF ExclusiveOwnership, h
    <3> QED BY <1>o, <2>3, <2>4, <2>5, <2>9, <3>1
  <2>10. \A v \in Workers : StrikesFit(v)'
    BY <2>8, <2>9
  <2>11. Queued' = Queued /\ \A e \in Queued : failures'[e] = failures[e]
    BY <1>0, <2>1, <2>3, <2>4 DEF Queued
  <2>12. \A e \in Engines : health'[e] = "none" => failures'[e] = 0
    BY <1>0, <2>1, <2>3, <2>4
  <2> QED BY <1>0, <2>3, <2>10, <2>11, <2>12 DEF Counted
<1>7. CASE Put(w)
  <2>1. held[w] \in Engines /\ held[w] \notin Queued /\ failures[held[w]] = losses[held[w]]
    BY <1>0, <1>1, <1>2, <1>7 DEF Put, StrikesFit
  <2>2. Queued' = Queued \union {held[w]}
    <3>1. queue \in Seq(Engines) /\ Distinct(queue) /\ held[w] \notin Elements(queue)
          /\ queue' = Append(queue, held[w])
      BY <1>0, <1>7, <2>1, QueueView DEF Put, TypeOK, ExclusiveOwnership
    <3>2. Elements(Append(queue, held[w])) = Elements(queue) \union {held[w]}
      BY <2>1, <3>1, AppendNew
    <3> QED BY <3>1, <3>2, QueueView DEF Queued, Elements
  <2>3. /\ failures' = failures /\ losses' = losses /\ health' = health /\ healthy' = healthy
        /\ pc'[w] = "idle"
        /\ \A v \in Workers \ {w} : pc'[v] = pc[v] /\ held'[v] = held[v]
    BY <1>0, <1>7 DEF Put, TypeOK
  <2>4. \A v \in Workers : StrikesFit(v)'
    BY <1>o, <2>3 DEF StrikesFit
  <2> QED BY <1>0, <2>1, <2>2, <2>3, <2>4 DEF Counted
<1>8. CASE Dispose(w)
  <2> DEFINE h == held[w]
  <2>1. h \in Engines /\ h \notin Queued /\ w \in Holding /\ failures[h] = 0
    BY <1>0, <1>1, <1>2, <1>8 DEF Dispose, KnownFit
  <2>2. /\ failures' = failures /\ losses' = losses /\ healthy' = healthy /\ queue' = queue
        /\ pc'[w] = "respawning"
        /\ \A v \in Workers \ {w} : pc'[v] = pc[v] /\ held'[v] = held[v]
        /\ \A e \in Engines : health'[e] = IF e = h THEN "none" ELSE health[e]
    BY <1>0, <1>8, <2>1 DEF Dispose, TypeOK
  <2>3. StrikesFit(w)'
    BY <2>2 DEF StrikesFit
  <2> HIDE DEF h
  <2>4. ASSUME NEW v \in Workers, v # w PROVE StrikesFit(v)'
    <3>1. pc[v] \in {"running", "releasing", "putting", "disposing"} => held[v] # h /\ held[v] \in Engines
      BY <1>0, <1>1, <1>2, <2>1, <2>4 DEF ExclusiveOwnership, h
    <3> QED BY <1>o, <2>2, <2>4, <3>1
  <2>5. \A v \in Workers : StrikesFit(v)'
    BY <2>3, <2>4
  <2>6. Queued' = Queued
    BY <2>2 DEF Queued
  <2>7. \A e \in Engines : health'[e] = "none" => failures'[e] = 0
    BY <1>0, <2>1, <2>2
  <2> QED BY <1>0, <2>2, <2>5, <2>6, <2>7 DEF Counted
<1>9. CASE \E e \in Engines : Respawn(w, e)
  <2>1. PICK e \in Engines : Respawn(w, e)
    BY <1>9
  <2>2. /\ health[e] = "none" /\ failures' = failures /\ healthy' = healthy /\ queue' = queue
        /\ pc'[w] = "putting" /\ held'[w] = e
        /\ \A v \in Workers \ {w} : pc'[v] = pc[v] /\ held'[v] = held[v]
        /\ \A f \in Engines : health'[f] = (IF f = e THEN "ok" ELSE health[f])
                              /\ losses'[f] = (IF f = e THEN 0 ELSE losses[f])
    BY <1>0, <2>1 DEF Respawn, Spawn, TypeOK
  <2>3. StrikesFit(w)'
    <3>1. held'[w] = e /\ failures'[e] = 0 /\ losses'[e] = 0
      BY <1>0, <2>2
    <3> QED BY <2>2, <3>1 DEF StrikesFit
  <2>4. ASSUME NEW v \in Workers, v # w PROVE StrikesFit(v)'
    <3>1. pc[v] \in {"running", "releasing", "putting", "disposing"} => held[v] # e /\ held[v] \in Engines
      BY <1>1, <1>2, <2>2, <2>4
    <3> QED BY <1>o, <2>2, <2>4, <3>1
  <2>5. \A v \in Workers : StrikesFit(v)'
    BY <2>3, <2>4
  <2>6. Queued' = Queued /\ \A f \in Queued : losses'[f] = losses[f]
    BY <1>0, <2>2 DEF Queued
  <2>7. \A f \in Engines : health'[f] = "none" => failures'[f] = 0
    BY <1>0, <2>2
  <2> QED BY <1>0, <2>2, <2>5, <2>6, <2>7 DEF Counted
<1> QED BY <1>3, <1>4, <1>5, <1>6, <1>7, <1>8, <1>9 DEF Call

\* So does a step of startup or of an engine; close() ends the promise.
LEMMA OthersKeepCount ==
    ASSUME IInv, Counted, phase \in {"starting", "up"}, phase' \in {"starting", "up"},
           Lifecycle \/ Environment \/ UNCHANGED vars
    PROVE  Counted'
<1>0. /\ TypeOK /\ QuietBeforeUp /\ ExclusiveOwnership
      /\ \A e \in Engines : health[e] = "none" => failures[e] = 0
      /\ \A e \in Queued : e \in Engines /\ health[e] # "none" /\ failures[e] = losses[e]
      /\ \A v \in Workers : StrikesFit(v)
  BY DEF IInv, Counted, ExclusiveOwnership, Live
<1>1. CASE \E e \in Engines : StartupSpawn(e)
  <2>1. PICK e \in Engines : StartupSpawn(e)
    BY <1>1
  <2>2. /\ health[e] = "none" /\ failures' = failures /\ queue' = Append(queue, e)
        /\ \A v \in Workers : pc'[v] = "idle"
        /\ \A f \in Engines : health'[f] = (IF f = e THEN "ok" ELSE health[f])
                              /\ losses'[f] = (IF f = e THEN 0 ELSE losses[f])
    BY <1>0, <2>1 DEF StartupSpawn, Spawn, TypeOK, QuietBeforeUp, Started
  <2>3. Queued' = Queued \union {e}
    <3>1. queue \in Seq(Engines) /\ Distinct(queue) /\ e \notin Elements(queue)
      BY <1>0, <2>2, QueueView DEF TypeOK, ExclusiveOwnership
    <3>2. Elements(Append(queue, e)) = Elements(queue) \union {e}
      BY <3>1, AppendNew
    <3> QED BY <2>2, <3>2, QueueView DEF Queued, Elements
  <2>4. \A f \in Queued' : failures'[f] = losses'[f]
    BY <1>0, <2>2, <2>3
  <2>5. \A v \in Workers : StrikesFit(v)'
    BY <2>2 DEF StrikesFit
  <2> QED BY <1>0, <2>2, <2>4, <2>5 DEF Counted
<1>2. CASE StartupFails \/ CloseBegins \/ CloseTests \/ ClosePops
  BY <1>2 DEF StartupFails, CloseBegins, CloseTests, ClosePops
<1>3. CASE Environment
  <2>1. UNCHANGED <<queue, failures, pc, held, healthy, losses>>
    BY <1>3 DEF Environment, Hang, Crash
  <2>2. \A e \in Engines : /\ health'[e] = "none" => health[e] = "none"
                           /\ health[e] = "dead" => health'[e] = "dead"
    BY <1>0, <1>3 DEF Environment, Hang, Crash, TypeOK
  <2>3. ASSUME NEW v \in Workers PROVE StrikesFit(v)'
    <3>1. pc[v] = "disposing" => held[v] \in Engines
      BY <1>0 DEF IInv, HeldWhileInHand, TypeOK
    <3> QED BY <1>0, <2>1, <2>2, <3>1 DEF StrikesFit
  <2>4. Queued' = Queued
    BY <2>1 DEF Queued
  <2> QED BY <1>0, <2>1, <2>2, <2>3, <2>4 DEF Counted
<1>4. CASE UNCHANGED vars
  <2>1. Queued' = Queued /\ \A v \in Workers : StrikesFit(v)' = StrikesFit(v)
    BY <1>4 DEF vars, Queued, StrikesFit
  <2> QED BY <1>0, <1>4, <2>1 DEF vars, Counted
<1> QED BY <1>1, <1>2, <1>3, <1>4 DEF Lifecycle

\* Through the pool's own operations, and until it closes, the strikes of a
\* handle are the operations it failed in a row, and a handle that is disposed
\* of is dead or failed MaxFailures times: for every pool and strike limit.
\* The direct callers release with the default healthy=True (run pool_direct).
THEOREM StrikesAreRight == Callers \subseteq {"pooled"} => (Spec => []StrikesSafe)
<1> SUFFICES ASSUME Callers \subseteq {"pooled"} PROVE Spec => []StrikesSafe
  OBVIOUS
<1> DEFINE OwnOperations == \A w \in Workers : caller[w] = "pooled"
           Inv == KnownFit /\ OwnOperations /\ Counted
<1>1. Init => Inv
  <2> SUFFICES ASSUME Init PROVE Inv
    OBVIOUS
  <2>1. KnownFit
    BY InitKnown
  <2>2. Queued = {} /\ OwnOperations
    BY DEF Init, Queued
  <2>3. Counted
    BY <2>2 DEF Init, Counted, StrikesFit
  <2> QED BY <2>1, <2>2, <2>3
<1>2. IInv /\ IInv' /\ Inv /\ [Next]_vars => Inv'
  <2> SUFFICES ASSUME IInv, Inv, [Next]_vars PROVE Inv'
    OBVIOUS
  <2>1. KnownFit'
    BY CallKeepsKnown, OthersKeepKnown DEF Next
  <2>2. OwnOperations'
    <3>1. TypeOK
      BY DEF IInv
    <3>2. CASE \E w \in Workers, k \in AllCallers : Request(w, k)
      BY <3>1, <3>2 DEF Request, TypeOK
    <3>3. CASE ~ \E w \in Workers, k \in AllCallers : Request(w, k)
      <4>1. caller' = caller
        BY <3>3 DEF Next, Lifecycle, Environment, Call, vars, StartupFails, CloseBegins, CloseTests,
            ClosePops, StartupSpawn, Hang, Crash, Acquire, QueueTimeout, Operate, Release, Put,
            Dispose, Respawn, RespawnFails
      <4> QED BY <4>1
    <3> QED BY <3>2, <3>3
  <2>3. CASE phase' \in {"starting", "up"}
    <3>1. phase \in {"starting", "up"}
      BY <2>3 DEF Next, Lifecycle, Environment, Call, vars, StartupFails, CloseBegins, CloseTests,
            ClosePops, StartupSpawn, Hang, Crash, Request, Acquire, QueueTimeout, Operate, Release,
            Put, Dispose, Respawn, RespawnFails
    <3>2. CASE Lifecycle \/ Environment \/ UNCHANGED vars
      BY <2>3, <3>1, <3>2, OthersKeepCount, <2>1, <2>2
    <3>3. ASSUME NEW w \in Workers, Call(w) PROVE Counted'
      <4>1. phase = "up"
        <5>1. QuietBeforeUp /\ TypeOK /\ HeldWhileInHand
          BY DEF IInv
        <5>2. phase = "starting" => pc[w] = "idle"
          BY <5>1 DEF QuietBeforeUp, Started
        <5>3. ~(phase = "starting" /\ pc[w] = "idle")
          BY <3>3 DEF Call, Request, Acquire, QueueTimeout, Operate, Release, Put, Dispose, Respawn,
                      RespawnFails, Started, AllCallers
        <5> QED BY <3>1, <5>2, <5>3
      <4> QED BY <3>3, <4>1, CallKeepsCount
    <3> QED BY <2>1, <2>2, <3>2, <3>3 DEF Next
  <2>4. CASE phase' \notin {"starting", "up"}
    BY <2>1, <2>2, <2>4 DEF Counted
  <2> QED BY <2>3, <2>4
<1>3. IInv /\ Inv => StrikesCountLosses /\ EvictionJustified
  BY DEF StrikesCountLosses, EvictionJustified, Counted, StrikesFit
<1> QED BY <1>1, <1>2, <1>3, Invariance, StrikeEntriesFit, PTL DEF Spec, StrikesSafe
=============================================================================
