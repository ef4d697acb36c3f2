------------------------------ MODULE EvalCache ------------------------------
(***************************************************************************)
(* The two-level cache of engine scores, FenEvalCache of                   *)
(* llm/seca/engines/stockfish/pool.py, read through by evaluate_position   *)
(* from several request threads.  Redis outlives the process, may be away  *)
(* and may hold anything; the local table exists for the times it is away. *)
(* A key stands for a position (its EPD) with one movetime; an entry       *)
(* remembers what it is the score of, and its age.                         *)
(***************************************************************************)
EXTENDS Naturals, FiniteSets, Sequences

CONSTANTS Positions, Asking,    \* keys, and threads in evaluate_position
          Configs, FirstConfig, \* engine settings, by fingerprint
          Ttl, MaxMemoryItems

ASSUME EvalCacheAssumption ==
    FirstConfig \in Configs /\ Ttl \in Nat /\ MaxMemoryItems \in Nat \ {0}

VARIABLES store,   \* Redis
          online,  \* Redis answers
          linked,  \* this process found it when it started
          memory,  \* the local table, least recently used first
          config,
          asking   \* the position each thread is evaluating, or Free

cacheVars == <<store, online, linked, memory, config, asking>>

\* Nothing, or a value that is not of the shape of a score: get makes no difference.
Empty == [kind |-> "empty"]
\* A value of that shape put there by another writer.
Alien == [kind |-> "alien"]
Free == [kind |-> "free"]
Score(p) == [kind |-> "score", of |-> p, by |-> config, age |-> 0]
Keys == Configs \X Positions
\* Mutated form: the settings are not part of the key.
PositionKey(p) == <<FirstConfig, p>>
Key(p) == <<config, p>>

CacheInit ==
    /\ store = [k \in Keys |-> Empty] /\ online = TRUE /\ linked = TRUE
    /\ memory = <<>> /\ config = FirstConfig
    /\ asking = [a \in Asking |-> Free]

\* _validated: the shape of an engine score is all that is asked of an entry.
Validated(e) == e.kind \in {"score", "alien"}

YoungEnough(e) == e.age <= Ttl

Entries(k) == {memory[i].entry : i \in {j \in DOMAIN memory : memory[j].key = k}}
\* The table without the entry of a key: those behind it move up.
Without(k) ==
    IF Entries(k) = {} THEN memory
    ELSE LET at == CHOOSE i \in DOMAIN memory : memory[i].key = k
         IN [i \in 1..Len(memory) - 1 |-> memory[IF i < at THEN i ELSE i + 1]]
MadeLatest(k, e) == Append(Without(k), [key |-> k, entry |-> e])

\* get: Redis first, then the table when Redis has nothing that can be served.
Hit(p) ==
    IF linked /\ online /\ Validated(store[Key(p)]) THEN {store[Key(p)]}
    ELSE {e \in Entries(Key(p)) : YoungEnough(e)}
FromTable(p) == Hit(p) # {} /\ ~(linked /\ online /\ Validated(store[Key(p)]))

\* evaluate_position: a hit of the table is its most recently used entry; a miss
\* drops an expired one and goes to the engine.
Get(a, p) ==
    /\ asking[a] = Free
    /\ memory' = IF FromTable(p) THEN MadeLatest(Key(p), CHOOSE e \in Hit(p) : TRUE)
                ELSE IF Hit(p) = {} THEN Without(Key(p)) ELSE memory
    /\ asking' = IF Hit(p) # {} THEN asking
                 ELSE [asking EXCEPT ![a] = [kind |-> "engine", of |-> p]]
    /\ UNCHANGED <<store, online, linked, config>>

\* The engine has answered; set writes to Redis, or to the table when that fails.
Evicted(t) == IF Len(t) > MaxMemoryItems THEN Tail(t) ELSE t
Set(a) ==
    LET p == asking[a].of
    IN /\ asking[a] # Free
       /\ IF linked /\ online
          THEN store' = [store EXCEPT ![Key(p)] = Score(p)] /\ UNCHANGED memory
          ELSE memory' = Evicted(MadeLatest(Key(p), Score(p))) /\ UNCHANGED store
       /\ asking' = [asking EXCEPT ![a] = Free]
       /\ UNCHANGED <<online, linked, config>>

\* No engine was free, it failed, or it gave no score: nothing is cached.
Miss(a) ==
    /\ asking[a] # Free
    /\ asking' = [asking EXCEPT ![a] = Free]
    /\ UNCHANGED <<store, online, linked, memory, config>>

\* Redis goes away or comes back; an entry of it is dropped early, or another writer
\* puts anything there: what is no score, or a plausible one that nobody computed.
Flap == online' = ~online /\ UNCHANGED <<store, linked, memory, config, asking>>
Corrupt == /\ \E k \in Keys, e \in {Empty, Alien} : store' = [store EXCEPT ![k] = e]
           /\ UNCHANGED <<online, linked, memory, config, asking>>

\* The server restarts, perhaps with other engine settings; __init__ pings Redis
\* once, and does without it from then on when it is away.
Redeploy ==
    /\ config' \in Configs
    /\ linked' = online
    /\ memory' = <<>>
    /\ asking' = [a \in Asking |-> Free]
    /\ UNCHANGED <<store, online>>

\* Time passes.  Redis drops what is too old, the table keeps it.
Older(e) == [e EXCEPT !.age = IF @ > Ttl THEN @ ELSE @ + 1]
Tick ==
    /\ store' = [k \in Keys |-> IF store[k].kind # "score" THEN store[k]
                                ELSE IF store[k].age = Ttl THEN Empty
                                ELSE Older(store[k])]
    /\ memory' = [i \in DOMAIN memory |-> [memory[i] EXCEPT !.entry = Older(@)]]
    /\ UNCHANGED <<online, linked, config, asking>>

CacheNext ==
    \/ \E a \in Asking : Set(a) \/ Miss(a) \/ \E p \in Positions : Get(a, p)
    \/ Flap \/ Corrupt \/ Redeploy \/ Tick

CacheSpec == CacheInit /\ [][CacheNext]_cacheVars

\* The table holds at most its bound of entries, one for a key.
CacheTypeOK ==
    /\ Len(memory) <= MaxMemoryItems
    /\ \A i, j \in DOMAIN memory : memory[i].key = memory[j].key => i = j
    /\ \A a \in Asking : asking[a] = Free \/ asking[a].of \in Positions
    /\ config \in Configs /\ online \in BOOLEAN /\ linked \in BOOLEAN

\* A position is answered from the cache only with a score of that position, computed
\* under the present engine settings and no older than the time to live, or else with
\* what another writer has in Redis under this very key at this moment: such a score is
\* never taken into the table, and is gone when Redis is away or holds it no more.
HitsAreOwnAndFresh ==
    \A p \in Positions : \A e \in Hit(p) :
        \/ e.kind = "score" /\ e.of = p /\ e.by = config /\ e.age <= Ttl
        \/ e = Alien /\ linked /\ online /\ store[Key(p)] = Alien

\* The cache of scores keeps its shape, and what it answers is right for who asks.
CacheSafe == CacheTypeOK /\ HitsAreOwnAndFresh
=============================================================================
