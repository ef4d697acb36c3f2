----------------------------- MODULE EnginePool -----------------------------
(***************************************************************************)
(* StockfishEnginePool (llm/seca/engines/stockfish/pool.py): a bounded     *)
(* FIFO queue of engine handles shared by request threads.  A thread takes *)
(* a handle, runs one operation on it and releases it; the release either  *)
(* puts the handle back, counts a strike against it, or disposes of it and *)
(* spawns a replacement.  The lifespan handler of llm/server.py starts the *)
(* pool before any request and closes it while background threads may      *)
(* still hold handles.  Engine subprocesses hang or die at any time.       *)
(***************************************************************************)
EXTENDS Naturals, Sequences, FiniteSets

CONSTANTS Workers,      \* threads that call the pool
          Engines,      \* handle identities; id() values are reused
          PoolSize,     \* EnginePoolSettings.pool_size
          MaxFailures,  \* MAX_CONSECUTIVE_ENGINE_FAILURES
          Callers,      \* the entry points in use, a subset of AllCallers
          None          \* no handle

AllCallers == {"pooled", "direct"}

ASSUME EnginePoolAssumption ==
    /\ IsFiniteSet(Workers)
    /\ None \notin Engines
    /\ PoolSize \in Nat \ {0}
    /\ MaxFailures \in Nat \ {0}
    /\ Callers \subseteq AllCallers

VARIABLES
    phase,     \* life cycle: the _started flag and the position of close()
    queue,     \* _engines
    failures,  \* _consecutive_failures (0 for a handle without an entry)
    health,    \* the subprocess behind each handle; "dead": its transport closed,
               \* "hung": alive, or dead unnoticed, and failing
    pc,        \* where each worker is in its call
    held,      \* the handle a worker took out of the queue
    caller,    \* "pooled": select_move / evaluate_position;
               \* "direct": engine_eval / verify_replay_move
    healthy,   \* the flag the worker passes to _release_engine
    losses     \* history: operations each handle has failed in a row

vars == <<phase, queue, failures, health, pc, held, caller, healthy, losses>>

Phases == {"starting", "up", "disabled", "closing", "popping", "closed", "aborted"}
Steps  == {"idle", "waiting", "running", "releasing", "putting", "disposing", "respawning"}

TypeOK ==
    /\ phase \in Phases
    /\ queue \in Seq(Engines)
    /\ failures \in [Engines -> 0..MaxFailures - 1]
    /\ health \in [Engines -> {"none", "ok", "hung", "dead"}]
    /\ pc \in [Workers -> Steps]
    /\ held \in [Workers -> Engines \union {None}]
    /\ caller \in [Workers -> AllCallers]
    /\ healthy \in [Workers -> BOOLEAN]
    /\ losses \in [Engines -> 0..MaxFailures]

Queued  == {queue[i] : i \in DOMAIN queue}
Live    == {e \in Engines : health[e] # "none"}
Holding == {w \in Workers : held[w] # None}

\* A worker that has an engine, or owes the pool one.
Engaged == {w \in Workers : pc[w] \notin {"idle", "waiting"}}

Started == phase \in {"up", "closing", "popping", "aborted"}

Init ==
    /\ phase = "starting"
    /\ queue = <<>>
    /\ failures = [e \in Engines |-> 0]
    /\ health = [e \in Engines |-> "none"]
    /\ pc = [w \in Workers |-> "idle"]
    /\ held = [w \in Workers |-> None]
    /\ caller = [w \in Workers |-> "pooled"]
    /\ healthy = [w \in Workers |-> FALSE]
    /\ losses = [e \in Engines |-> 0]

-----------------------------------------------------------------------------
(* Life cycle *)

\* popen_uci and configure return a working engine under a free identity.
Spawn(e) ==
    /\ health[e] = "none"
    /\ health' = [health EXCEPT ![e] = "ok"]
    /\ losses' = [losses EXCEPT ![e] = 0]

\* startup(): one spawn per slot; requests are served only afterwards.
StartupSpawn(e) ==
    /\ phase = "starting"
    /\ Len(queue) < PoolSize
    /\ Spawn(e)
    /\ queue' = Append(queue, e)
    /\ phase' = IF Len(queue) + 1 = PoolSize THEN "up" ELSE "starting"
    /\ UNCHANGED <<failures, pc, held, caller, healthy>>

\* A spawn raises: the lifespan handler calls close(), which returns at once
\* because _started is still False, and drops the pool.
StartupFails ==
    /\ phase = "starting"
    /\ phase' = "disabled"
    /\ UNCHANGED <<queue, failures, health, pc, held, caller, healthy, losses>>

CloseBegins ==
    /\ phase = "up"
    /\ phase' = "closing"
    /\ UNCHANGED <<queue, failures, health, pc, held, caller, healthy, losses>>

\* `while not self._engines.empty()`.
CloseTests ==
    /\ phase = "closing"
    /\ phase' = IF queue = <<>> THEN "closed" ELSE "popping"
    /\ UNCHANGED <<queue, failures, health, pc, held, caller, healthy, losses>>

\* get_nowait and quit; if a worker took the last handle since the test,
\* get_nowait raises Empty out of close() and _started stays True.
ClosePops ==
    /\ phase = "popping"
    /\ IF queue = <<>>
       THEN phase' = "aborted" /\ UNCHANGED <<queue, health>>
       ELSE /\ phase' = "closing"
            /\ queue' = Tail(queue)
            /\ health' = [health EXCEPT ![Head(queue)] = "none"]
    /\ UNCHANGED <<failures, pc, held, caller, healthy, losses>>

-----------------------------------------------------------------------------
(* A worker's call *)

\* select_move and evaluate_position check _started; the direct callers only
\* check that the pool object exists, which close() leaves in place.
Request(w, k) ==
    /\ pc[w] = "idle"
    /\ k \in Callers
    /\ IF k = "pooled" THEN Started ELSE phase \notin {"starting", "disabled"}
    /\ pc' = [pc EXCEPT ![w] = "waiting"]
    /\ caller' = [caller EXCEPT ![w] = k]
    /\ UNCHANGED <<phase, queue, failures, health, held, healthy, losses>>

Acquire(w) ==
    /\ pc[w] = "waiting"
    /\ queue # <<>>
    /\ held' = [held EXCEPT ![w] = Head(queue)]
    /\ queue' = Tail(queue)
    /\ pc' = [pc EXCEPT ![w] = "running"]
    /\ UNCHANGED <<phase, failures, health, caller, healthy, losses>>

\* Mutated form of QueueTimeout: an impatient caller spawns a spare engine.
QueueTimeoutSpawns(w) ==
    /\ pc[w] = "waiting"
    /\ queue = <<>>
    /\ pc' = [pc EXCEPT ![w] = "respawning"]
    /\ UNCHANGED <<phase, queue, failures, health, held, caller, healthy, losses>>

\* queue.Empty after the queue timeout: the call raises.
QueueTimeout(w) ==
    /\ pc[w] = "waiting"
    /\ queue = <<>>
    /\ pc' = [pc EXCEPT ![w] = "idle"]
    /\ UNCHANGED <<phase, queue, failures, health, held, caller, healthy, losses>>

\* play() or analyse() returns or raises.  The pool's own operations report
\* the outcome; the direct callers release with the default healthy=True.
Operate(w, success) ==
    /\ pc[w] = "running"
    /\ success => health[held[w]] = "ok"
    /\ healthy' = [healthy EXCEPT ![w] = (caller[w] = "direct") \/ success]
    /\ losses' = [losses EXCEPT ![held[w]] =
                    IF success THEN 0
                    ELSE IF @ = MaxFailures THEN @ ELSE @ + 1]
    /\ pc' = [pc EXCEPT ![w] = "releasing"]
    /\ UNCHANGED <<phase, queue, failures, health, held, caller>>

StrikesOut(w) == failures[held[w]] + 1 >= MaxFailures

\* The handle goes back to the queue: its process lives and either the
\* operation succeeded or the strike limit is not reached.
Keeps(w) == health[held[w]] # "dead" /\ (healthy[w] \/ ~StrikesOut(w))

\* Mutated forms of StrikesAfter: a success does not reset the count; a
\* failure is not recorded.
StrikesUnreset(w) ==
    IF ~Keeps(w) THEN 0
    ELSE IF healthy[w] THEN failures[held[w]] ELSE failures[held[w]] + 1
StrikesUnrecorded(w) == 0

StrikesAfter(w) == IF Keeps(w) /\ ~healthy[w] THEN failures[held[w]] + 1 ELSE 0

\* _release_engine up to the put or the disposal.
Release(w) ==
    /\ pc[w] = "releasing"
    /\ pc' = [pc EXCEPT ![w] = IF Keeps(w) THEN "putting" ELSE "disposing"]
    /\ failures' = [failures EXCEPT ![held[w]] = StrikesAfter(w)]
    /\ UNCHANGED <<phase, queue, health, held, caller, healthy, losses>>

\* Mutated form of Put: the worker keeps using the handle it gave back.
PutShared(w) ==
    /\ pc[w] = "putting"
    /\ Len(queue) < PoolSize
    /\ queue' = Append(queue, held[w])
    /\ pc' = [pc EXCEPT ![w] = "running"]
    /\ UNCHANGED <<phase, failures, health, held, caller, healthy, losses>>

\* queue.put blocks while the queue is full.
Put(w) ==
    /\ pc[w] = "putting"
    /\ Len(queue) < PoolSize
    /\ queue' = Append(queue, held[w])
    /\ held' = [held EXCEPT ![w] = None]
    /\ pc' = [pc EXCEPT ![w] = "idle"]
    /\ UNCHANGED <<phase, failures, health, caller, healthy, losses>>

\* _replace_engine_slot: transport.kill() and quit().
Dispose(w) ==
    /\ pc[w] = "disposing"
    /\ health' = [health EXCEPT ![held[w]] = "none"]
    /\ held' = [held EXCEPT ![w] = None]
    /\ pc' = [pc EXCEPT ![w] = "respawning"]
    /\ UNCHANGED <<phase, queue, failures, caller, healthy, losses>>

\* The replacement is spawned; its put is the worker's next step.
Respawn(w, e) ==
    /\ pc[w] = "respawning"
    /\ Spawn(e)
    /\ held' = [held EXCEPT ![w] = e]
    /\ pc' = [pc EXCEPT ![w] = "putting"]
    /\ UNCHANGED <<phase, queue, failures, caller, healthy>>

\* The respawn raises: the slot is forfeited.
RespawnFails(w) ==
    /\ pc[w] = "respawning"
    /\ pc' = [pc EXCEPT ![w] = "idle"]
    /\ UNCHANGED <<phase, queue, failures, health, held, caller, healthy, losses>>

-----------------------------------------------------------------------------
(* The subprocesses *)

Hang(e) ==
    /\ health[e] = "ok"
    /\ health' = [health EXCEPT ![e] = "hung"]
    /\ UNCHANGED <<phase, queue, failures, pc, held, caller, healthy, losses>>

Crash(e) ==
    /\ health[e] \in {"ok", "hung"}
    /\ health' = [health EXCEPT ![e] = "dead"]
    /\ UNCHANGED <<phase, queue, failures, pc, held, caller, healthy, losses>>

-----------------------------------------------------------------------------
Lifecycle == StartupFails \/ CloseBegins \/ CloseTests \/ ClosePops
             \/ \E e \in Engines : StartupSpawn(e)

Call(w) == \/ \E k \in AllCallers : Request(w, k)
           \/ Acquire(w) \/ QueueTimeout(w)
           \/ \E s \in BOOLEAN : Operate(w, s)
           \/ Release(w) \/ Put(w) \/ Dispose(w)
           \/ RespawnFails(w) \/ \E e \in Engines : Respawn(w, e)

Environment == \E e \in Engines : Hang(e) \/ Crash(e)

Next == Lifecycle \/ Environment \/ \E w \in Workers : Call(w)

Spec == Init /\ [][Next]_vars

\* Threads are scheduled and requests keep coming; nothing obliges an engine
\* to misbehave, an operation to succeed, or the server to stop.
Fairness == \A w \in Workers : WF_vars(Call(w))

LiveSpec == Spec /\ Fairness
-----------------------------------------------------------------------------
(* Properties *)

\* No handle is in two hands: the queue holds no duplicate, a held handle is
\* not queued, no two workers hold the same one, and every live subprocess
\* has exactly one owner (pool.py 471-475: "queue ownership is exclusive").
ExclusiveOwnership ==
    /\ \A i, j \in DOMAIN queue : queue[i] = queue[j] => i = j
    /\ \A w \in Holding : held[w] \notin Queued
    /\ \A w, v \in Holding : held[w] = held[v] => w = v
    /\ Live = Queued \union {held[w] : w \in Holding}

\* The slots: queued handles and engaged workers never exceed the pool's
\* size, so queue.put, which has no timeout, never blocks a request thread.
PutNeverBlocks ==
    /\ Len(queue) + Cardinality(Engaged) <= PoolSize
    /\ \A w \in Workers : pc[w] = "putting" => Len(queue) < PoolSize

\* pool.py 473-475: "the dict cannot grow past pool_size live handles", even
\* though close() leaves the entries of the handles it quits.
StrikeEntriesBounded == Cardinality({e \in Engines : failures[e] > 0}) <= PoolSize

\* Through the pool's own operations, the strike count of every handle a
\* request can take next is the number of operations it just failed in a row.
StrikesCountLosses ==
    phase = "up" => \A e \in Queued : failures[e] = losses[e]

\* No false eviction while the pool serves: a handle is disposed of only when
\* its process is dead or it failed MaxFailures operations in a row.
EvictionJustified ==
    phase = "up" =>
        \A w \in Workers : pc[w] = "disposing" =>
            health[held[w]] = "dead" \/ losses[held[w]] >= MaxFailures

\* pool.py 539-542: "after MAX_CONSECUTIVE_ENGINE_FAILURES consecutive failed
\* operations the handle is killed and replaced anyway".
FailingHandleEvicted == \A e \in Queued : losses[e] < MaxFailures

\* A wedged or dead engine does not poison its slot for ever: while the pool
\* serves and requests keep coming, its handle is eventually disposed of.
BadEngineReplaced ==
    \A e \in Engines :
        (phase = "up" /\ health[e] \in {"hung", "dead"})
            ~> (phase # "up" \/ health[e] \in {"none", "ok"})

\* The pool implements the abstract semaphore.
Slots == INSTANCE SlotPool
    WITH Clients <- Workers, Capacity <- PoolSize,
         available <- Len(queue), busy <- Engaged

ImplementsSlotPool == Slots!SlotSpec

\* What the pool promises its callers, whoever they are (pool.py 471-475).
PoolSafe == TypeOK /\ ExclusiveOwnership /\ PutNeverBlocks

\* What release decides on, through the pool's own operations: the strikes are the
\* failures in a row, their entries stay within the pool, and nothing good is evicted.
StrikesSafe == StrikesCountLosses /\ StrikeEntriesBounded /\ EvictionJustified
=============================================================================
