---------------------------- MODULE Storage_proofs ----------------------------
(***************************************************************************)
(* Theorems about what the server keeps: the rows of the games table, the  *)
(* opening repertoire, the study weeks of a player and their puzzles, the  *)
(* notification feed and the cache of engine scores, for any number of     *)
(* players, devices, openings, games, puzzles, producers, positions and    *)
(* threads.                                                                *)
(***************************************************************************)
EXTENDS SavedGames, Repertoire, EvalCache, StudyWeek, PracticePuzzles,
        NotificationFeed, FiniteSetTheorems, SequenceTheorems, WellFoundedInduction, TLAPS

-----------------------------------------------------------------------------
(* The games table (SavedGames) *)

Started == [made : {TRUE}, owner : Players, finished : BOOLEAN, saved : 0..MaxCheckpoints]
Busy == [at : {"owned", "read", "ending"}, player : Players, game : GameIds, seen : GameRows]

\* A request that is past the look at its row is its owner's.
RequestsOwned ==
    \A d \in Devices : request[d] # Idle =>
        /\ row[request[d].game].made
        /\ row[request[d].game].owner = request[d].player

RowsInv == SavedGamesTypeOK /\ RequestsOwned

\* A record of the table is a started game or the absence of one.
LEMMA RowKinds ==
    ASSUME NEW r \in GameRows
    PROVE  /\ r = NoGame => ~r.made
           /\ r # NoGame => r \in Started /\ r.made
<1>1. CASE r = NoGame
  <2>1. ~r.made
    BY <1>1 DEF NoGame
  <2> QED BY <1>1, <2>1
<1>2. CASE r \in Started
  <2>1. r.made
    BY <1>2 DEF Started
  <2>2. r # NoGame
    BY <1>2 DEF Started, NoGame
  <2> QED BY <1>2, <2>1, <2>2
<1> QED BY <1>1, <1>2 DEF GameRows, Started

\* A request is idle or holds a game, a player and the row it read.
LEMMA CallKinds ==
    ASSUME NEW c \in Calls
    PROVE  /\ c # Idle => c \in Busy /\ c.at \in {"owned", "read", "ending"}
           /\ c.at \in {"owned", "read", "ending"} => c # Idle
<1>1. CASE c = Idle
  <2>1. c.at = "idle"
    BY <1>1 DEF Idle
  <2> QED BY <1>1, <2>1
<1>2. CASE c \in Busy
  <2>1. c.at \in {"owned", "read", "ending"}
    BY <1>2 DEF Busy
  <2>2. c # Idle
    BY <1>2 DEF Busy, Idle
  <2> QED BY <1>2, <2>1, <2>2
<1> QED BY <1>1, <1>2 DEF Calls, Busy

\* The table starts empty and nothing is asked of it.
LEMMA RowsInit == SavedGamesInit => RowsInv
BY SavedGamesAssumption
DEF SavedGamesInit, RowsInv, SavedGamesTypeOK, RequestsOwned, GameRows, Calls

\* What a step may do to a row: start it, move its checkpoint, or close it, and the
\* last two only for the row of the request that the step answers.
RowStep(g, d) ==
    \/ row'[g] = row[g]
    \/ row[g] = NoGame /\ \E p \in Players : row'[g] = NewGame(p)
    \/ /\ request[d] # Idle /\ request'[d] = Idle /\ request[d].game = g
       /\ \/ \E n \in 0..MaxCheckpoints : row'[g] = [row[g] EXCEPT !.saved = n]
          \/ row'[g] = [row[g] EXCEPT !.finished = TRUE]

Steps(d) ==
    \/ ReadGame(d) \/ WriteCheckpoint(d) \/ WriteFinish(d)
    \/ \E p \in Players :
          \/ StartGame(d, p)
          \/ \E g \in GameIds : Checkpoint(d, p, g) \/ EndGame(d, p, g)

LEMMA RowSteps ==
    ASSUME RowsInv, NEW d \in Devices, Steps(d)
    PROVE  /\ \A g \in GameIds : RowStep(g, d)
           /\ DOMAIN row' = GameIds /\ row' = [g \in GameIds |-> row'[g]]
<1>0. row \in [GameIds -> GameRows] /\ request \in [Devices -> Calls] /\ stamped \in 0..MaxCheckpoints
  BY DEF RowsInv, SavedGamesTypeOK
<1>1. ASSUME ReadGame(d) \/ \E p \in Players, g \in GameIds : Checkpoint(d, p, g) \/ EndGame(d, p, g)
      PROVE  row' = row
  BY <1>1 DEF ReadGame, Checkpoint, EndGame
<1>2. CASE WriteCheckpoint(d)
  <2>1. request[d] # Idle /\ request[d].game \in GameIds
    BY <1>0, <1>2, CallKinds DEF WriteCheckpoint, Busy
  <2>2. request'[d] = Idle
    BY <1>0, <1>2 DEF WriteCheckpoint, Reply
  <2>3. stamped + 1 \in 0..MaxCheckpoints
    BY <1>0, <1>2, SavedGamesAssumption DEF WriteCheckpoint
  <2>4. row' = [row EXCEPT ![request[d].game] = [row[request[d].game] EXCEPT !.saved = stamped + 1]]
    BY <1>2 DEF WriteCheckpoint, PutCheckpoint
  <2> QED BY <1>0, <2>1, <2>2, <2>3, <2>4 DEF RowStep
<1>3. CASE WriteFinish(d)
  <2>1. request[d] # Idle /\ request[d].game \in GameIds
    BY <1>0, <1>3, CallKinds DEF WriteFinish, Busy
  <2>2. request'[d] = Idle
    BY <1>0, <1>3 DEF WriteFinish, Reply
  <2>4. row' = [row EXCEPT ![request[d].game] = [row[request[d].game] EXCEPT !.finished = TRUE]]
    BY <1>3 DEF WriteFinish
  <2> QED BY <1>0, <2>1, <2>2, <2>4 DEF RowStep
<1>4. CASE \E p \in Players : StartGame(d, p)
  BY <1>0, <1>4 DEF StartGame, RowStep
<1> QED BY <1>0, <1>1, <1>2, <1>3, <1>4 DEF Steps, RowStep

\* What a step leaves of a row: its owner, and that it was started or closed.
LEMMA RowsStay ==
    ASSUME RowsInv, NEW d \in Devices, NEW g \in GameIds, RowStep(g, d)
    PROVE  /\ row'[g] \in GameRows
           /\ row[g].made => row'[g].made /\ row'[g].owner = row[g].owner
           /\ row[g].made /\ row[g].finished => row'[g].finished
<1>0. row[g] \in GameRows
  BY DEF RowsInv, SavedGamesTypeOK
<1>1. CASE row'[g] = row[g]
  BY <1>0, <1>1
<1>2. CASE row[g] = NoGame /\ \E p \in Players : row'[g] = NewGame(p)
  <2>1. PICK p \in Players : row'[g] = NewGame(p)
    BY <1>2
  <2>2. NewGame(p) \in GameRows
    BY SavedGamesAssumption DEF NewGame, GameRows
  <2>3. ~row[g].made
    BY <1>0, <1>2, RowKinds
  <2> QED BY <2>1, <2>2, <2>3
<1>3. CASE /\ request[d] # Idle /\ request[d].game = g
           /\ \/ \E n \in 0..MaxCheckpoints : row'[g] = [row[g] EXCEPT !.saved = n]
              \/ row'[g] = [row[g] EXCEPT !.finished = TRUE]
  <2>1. row[g].made
    BY <1>3 DEF RowsInv, RequestsOwned
  <2>2. row[g] \in Started
    BY <1>0, <2>1, RowKinds
  <2>3. CASE \E n \in 0..MaxCheckpoints : row'[g] = [row[g] EXCEPT !.saved = n]
    <3>1. PICK n \in 0..MaxCheckpoints : row'[g] = [row[g] EXCEPT !.saved = n]
      BY <2>3
    <3>2. row'[g] \in Started
      BY <2>2, <3>1 DEF Started
    <3>3. row'[g].owner = row[g].owner
      BY <2>2, <3>1 DEF Started
    <3>4. row[g].finished => row'[g].finished
      BY <2>2, <3>1 DEF Started
    <3>5. row'[g].made
      BY <3>2 DEF Started
    <3> QED BY <3>2, <3>3, <3>4, <3>5 DEF Started, GameRows
  <2>4. CASE row'[g] = [row[g] EXCEPT !.finished = TRUE]
    <3>2. row'[g] \in Started
      BY <2>2, <2>4 DEF Started
    <3>3. row'[g].owner = row[g].owner
      BY <2>2, <2>4 DEF Started
    <3>4. row'[g].finished
      BY <2>2, <2>4 DEF Started
    <3>5. row'[g].made
      BY <3>2 DEF Started
    <3> QED BY <3>2, <3>3, <3>4, <3>5 DEF Started, GameRows
  <2> QED BY <1>3, <2>3, <2>4
<1> QED BY <1>1, <1>2, <1>3 DEF RowStep

\* A request is begun on a row of its player, and goes on with that row.
LEMMA RequestSteps ==
    ASSUME RowsInv, NEW d \in Devices, Steps(d)
    PROVE  /\ request' \in [Devices -> Calls] /\ stamped' \in 0..MaxCheckpoints
           /\ \A e \in Devices : request'[e] # Idle =>
                /\ row[request'[e].game].made
                /\ row[request'[e].game].owner = request'[e].player
<1>0. row \in [GameIds -> GameRows] /\ request \in [Devices -> Calls] /\ stamped \in 0..MaxCheckpoints
  BY DEF RowsInv, SavedGamesTypeOK
<1>1. ASSUME NEW at \in {"owned", "read", "ending"}, NEW p \in Players, NEW g \in GameIds,
             row[g].made, row[g].owner = p, Hold(d, at, p, g), stamped' = stamped
      PROVE  /\ request' \in [Devices -> Calls] /\ stamped' \in 0..MaxCheckpoints
             /\ \A e \in Devices : request'[e] # Idle =>
                  /\ row[request'[e].game].made
                  /\ row[request'[e].game].owner = request'[e].player
  <2> DEFINE c == [at |-> at, player |-> p, game |-> g, seen |-> row[g]]
  <2>1. c \in Calls
    BY <1>0 DEF Calls
  <2>2. request' = [request EXCEPT ![d] = c]
    BY <1>1 DEF Hold
  <2>3. c.game = g /\ c.player = p
    OBVIOUS
  <2> HIDE DEF c
  <2> QED BY <1>0, <1>1, <2>1, <2>2, <2>3 DEF RowsInv, RequestsOwned
<1>2. ASSUME Reply(d), stamped' \in 0..MaxCheckpoints
      PROVE  /\ request' \in [Devices -> Calls] /\ stamped' \in 0..MaxCheckpoints
             /\ \A e \in Devices : request'[e] # Idle =>
                  /\ row[request'[e].game].made
                  /\ row[request'[e].game].owner = request'[e].player
  BY <1>0, <1>2 DEF Reply, Calls, RowsInv, RequestsOwned
<1>3. CASE ReadGame(d)
  <2>1. request[d] # Idle /\ request[d] \in Busy
    BY <1>0, <1>3, CallKinds DEF ReadGame
  <2>2. request[d].game \in GameIds /\ request[d].player \in Players
    BY <2>1 DEF Busy
  <2> QED BY <1>0, <1>1, <1>2, <1>3, <2>1, <2>2 DEF ReadGame, RowsInv, RequestsOwned
<1>4. CASE WriteCheckpoint(d)
  BY <1>0, <1>2, <1>4, SavedGamesAssumption DEF WriteCheckpoint
<1>5. CASE WriteFinish(d)
  BY <1>0, <1>2, <1>5 DEF WriteFinish
<1>6. CASE \E p \in Players : StartGame(d, p)
  BY <1>0, <1>6 DEF StartGame, RowsInv, RequestsOwned
<1>7. CASE \E p \in Players, g \in GameIds : Checkpoint(d, p, g)
  BY <1>0, <1>1, <1>7 DEF Checkpoint, MayCheckpoint
<1>8. CASE \E p \in Players, g \in GameIds : EndGame(d, p, g)
  BY <1>0, <1>1, <1>8 DEF EndGame, Finishable
<1> QED BY <1>3, <1>4, <1>5, <1>6, <1>7, <1>8 DEF Steps

\* No step breaks the types or makes a request someone else's.
LEMMA RowsStep == RowsInv /\ [SavedGamesNext]_gameRowVars => RowsInv'
<1> SUFFICES ASSUME RowsInv, [SavedGamesNext]_gameRowVars
             PROVE  RowsInv'
  OBVIOUS
<1>1. CASE UNCHANGED gameRowVars
  BY <1>1 DEF gameRowVars, RowsInv, SavedGamesTypeOK, RequestsOwned
<1>2. CASE SavedGamesNext
  <2>1. PICK d \in Devices : Steps(d)
    BY <1>2 DEF SavedGamesNext, Steps
  <2>2. \A g \in GameIds : /\ row'[g] \in GameRows
                           /\ row[g].made => row'[g].made /\ row'[g].owner = row[g].owner
    BY <2>1, RowSteps, RowsStay
  <2>3. row' \in [GameIds -> GameRows]
    BY <2>1, <2>2, RowSteps
  <2>4. request' \in [Devices -> Calls] /\ stamped' \in 0..MaxCheckpoints
    BY <2>1, RequestSteps
  <2>5. ASSUME NEW e \in Devices, request'[e] # Idle
        PROVE  /\ row'[request'[e].game] # NoGame
               /\ row'[request'[e].game].made
               /\ row'[request'[e].game].owner = request'[e].player
    <3>1. request'[e].game \in GameIds
      BY <2>4, <2>5, CallKinds DEF Busy
    <3>2. row'[request'[e].game].made /\ row'[request'[e].game].owner = request'[e].player
      BY <2>1, <2>2, <2>5, <3>1, RequestSteps
    <3> QED BY <2>2, <3>1, <3>2, RowKinds
  <2> QED BY <2>3, <2>4, <2>5 DEF RowsInv, SavedGamesTypeOK, RequestsOwned
<1> QED BY <1>1, <1>2

\* The types, and that requests are their owners', hold in every reachable state.
THEOREM RowsInvariance == SavedGamesSpec => []RowsInv
BY RowsInit, RowsStep, PTL DEF SavedGamesSpec

\* Whichever requests overlap, a step never brings a closed game back, and
\* changes a row only when it answers a request of the row's owner for that row.
THEOREM RowsKept == SavedGamesSpec => GameRowsKept
<1>1. ASSUME RowsInv, [SavedGamesNext]_gameRowVars, NEW g \in GameIds,
             row[g].made, row[g].finished
      PROVE  \A p \in Players : g \notin ActiveGame(p)'
  <2>1. row'[g].finished
    <3>1. CASE SavedGamesNext
      BY <1>1, <3>1, RowSteps, RowsStay DEF SavedGamesNext, Steps
    <3>2. CASE UNCHANGED gameRowVars
      BY <1>1, <3>2 DEF gameRowVars
    <3> QED BY <1>1, <3>1, <3>2
  <2> QED BY <2>1 DEF ActiveGame, Resumable
<1>2. ASSUME RowsInv, [SavedGamesNext]_gameRowVars, NEW g \in GameIds,
             row[g].made, row'[g] # row[g]
      PROVE  \E d \in Devices : /\ request[d] # Idle /\ request'[d] = Idle
                                /\ request[d].game = g
                                /\ request[d].player = row[g].owner
  <2>1. PICK d \in Devices : Steps(d)
    BY <1>2 DEF gameRowVars, SavedGamesNext, Steps
  <2>2. row[g] # NoGame
    BY <1>2, RowKinds DEF RowsInv, SavedGamesTypeOK
  <2>3. /\ request[d] # Idle /\ request'[d] = Idle
        /\ request[d].game = g
    BY <1>2, <2>1, <2>2, RowSteps DEF RowStep
  <2> QED BY <1>2, <2>3 DEF RowsInv, RequestsOwned
<1>3. RowsInv /\ [SavedGamesNext]_gameRowVars
        => [\A g \in GameIds : row[g].made /\ row[g].finished =>
              \A p \in Players : g \notin ActiveGame(p)']_gameRowVars
  BY <1>1
<1>4. RowsInv /\ [SavedGamesNext]_gameRowVars
        => [\A g \in GameIds : row[g].made /\ row'[g] # row[g] =>
              \E d \in Devices : /\ request[d] # Idle /\ request'[d] = Idle
                                 /\ request[d].game = g
                                 /\ request[d].player = row[g].owner]_gameRowVars
  BY <1>2
<1> QED BY <1>3, <1>4, RowsInvariance, PTL
        DEF SavedGamesSpec, GameRowsKept, NoPhantomResume, OnlyOwnerWrites

-----------------------------------------------------------------------------
(* Repertoire: one active line, and a deleted line stays deleted *)

USE RepertoireAssumption

\* A row, and a request under way.
Row(n) == [key : 0..n, active : BOOLEAN]
Ops == {"activate", "add", "delete", "drill"}
Requests(n) ==
    [op : Ops, eco : Ecos, read : [Ecos -> Row(n)], at : {"seeding", "reading", "writing"}]

RowTypes ==
    /\ keys \in 0..MaxLines
    /\ lines \in [Ecos -> Row(keys)]
    /\ \A f \in Ecos : lines[f].active => lines[f].key # 0
    /\ dropped \subseteq Ecos /\ overlapped \in BOOLEAN
    /\ edit \in [Edits -> {Resting} \union Requests(keys)]

\* What a request that is about to write has read: the line it is about, and, for the
\* one writer of flags, at least the flags that are set.
Flagging(q) == q.at = "writing" /\ q.op \in {"activate", "add"}
HasRead(q) ==
    /\ q.at = "writing" /\ q.op # "add" => q.read[q.eco].key # 0
    /\ ~overlapped /\ q.at = "writing" /\ q.op = "activate" =>
          \A f \in Ecos : lines[f].active => q.read[f].active

OneFlags ==
    ~overlapped => /\ \A e, f \in Ecos : lines[e].active /\ lines[f].active => e = f
                   /\ \A q, r \in Edits : Flagging(edit[q]) /\ Flagging(edit[r]) => q = r

\* While the defaults are about to be seeded nothing counts as deleted.
Droppings ==
    /\ \A e \in dropped : lines[e].key = 0
    /\ (\A e \in Ecos : lines[e].key = 0) => dropped = {}
    /\ \A r \in Edits : edit[r].at = "seeding" => dropped = {}

RepertoireInv ==
    RowTypes /\ (\A r \in Edits : HasRead(edit[r])) /\ OneFlags /\ Droppings

LEMMA RowGrows ==
    ASSUME NEW n \in Nat
    PROVE  /\ Row(n) \subseteq Row(n + 1) /\ Requests(n) \subseteq Requests(n + 1)
           /\ Absent \in Row(n)
<1>1. Row(n) \subseteq Row(n + 1)
    BY DEF Row
<1>2. [Ecos -> Row(n)] \subseteq [Ecos -> Row(n + 1)]
    BY <1>1
<1>3. Requests(n) \subseteq Requests(n + 1)
    BY <1>2 DEF Requests
<1> QED BY <1>1, <1>3 DEF Row, Absent

\* The kinds of request are told apart by where they are.
LEMMA RequestFields ==
    ASSUME RowTypes, NEW r \in Edits
    PROVE  /\ edit[r].at = "idle" \/ edit[r] \in Requests(keys)
           /\ edit[r] # Resting => edit[r] \in Requests(keys)
           /\ Resting.at = "idle" /\ ~Flagging(Resting)
           /\ edit[r] \in Requests(keys) =>
                 /\ edit[r].op \in Ops /\ edit[r].eco \in Ecos
                 /\ edit[r].read \in [Ecos -> Row(keys)]
                 /\ edit[r].at \in {"seeding", "reading", "writing"}
BY DEF RowTypes, Requests, Resting, Flagging

LEMMA RowFields ==
    ASSUME RowTypes, NEW f \in Ecos
    PROVE  lines[f] \in Row(keys) /\ lines[f].key \in 0..keys /\ lines[f].active \in BOOLEAN
BY DEF RowTypes, Row

\* A step of one request: what it must keep.
LEMMA EditMoves ==
    ASSUME RepertoireInv, NEW r \in Edits, RowTypes', HasRead(edit[r])', OneFlags', Droppings',
           \A q \in Edits \ {r} : edit'[q] = edit[q],
           overlapped => overlapped',
           ~overlapped' => \A q \in Edits \ {r} : edit[q].at = "writing" /\ edit[q].op = "activate" =>
                               \A f \in Ecos : lines'[f].active => lines[f].active
    PROVE  RepertoireInv'
<1> SUFFICES ASSUME NEW q \in Edits PROVE HasRead(edit[q])'
    BY DEF RepertoireInv
<1> QED BY DEF RepertoireInv, HasRead

\* A request that ends changes only what it wrote.
LEMMA AnsweredTypes ==
    ASSUME RepertoireInv, NEW r \in Edits, Answered(r), keys' \in {keys, keys + 1},
           keys' \in 0..MaxLines, lines' \in [Ecos -> Row(keys')],
           \A f \in Ecos : lines'[f].active => lines'[f].key # 0,
           dropped' \subseteq Ecos, overlapped' \in BOOLEAN
    PROVE  RowTypes' /\ HasRead(edit[r])' /\ edit'[r] = Resting
           /\ (\A q \in Edits \ {r} : edit'[q] = edit[q])
<1>1. keys \in Nat /\ edit \in [Edits -> {Resting} \union Requests(keys)]
    BY DEF RepertoireInv, RowTypes
<1>2. edit' \in [Edits -> {Resting} \union Requests(keys')]
    BY <1>1, RowGrows DEF Answered
<1>3. edit'[r] = Resting /\ \A q \in Edits \ {r} : edit'[q] = edit[q]
    BY <1>1 DEF Answered
<1>4. HasRead(edit[r])'
    BY <1>3 DEF HasRead, Resting
<1> QED BY <1>2, <1>3, <1>4 DEF RowTypes

LEMMA EditFits ==
    ASSUME RepertoireInv, NEW r \in Edits, NEW op \in Ops, NEW e \in Ecos, Edit(r, op, e)
    PROVE  RepertoireInv'
<1> DEFINE q == [op |-> op, eco |-> e, read |-> [f \in Ecos |-> Absent],
                 at |-> IF NothingStored(lines) THEN "seeding" ELSE "reading"]
<1>1. RowTypes /\ keys \in Nat /\ UNCHANGED seeded
    BY DEF RepertoireInv, RowTypes, Edit
<1>2. [f \in Ecos |-> Absent] \in [Ecos -> Row(keys)]
    BY <1>1, RowGrows
<1>3. q \in Requests(keys) /\ q.at \in {"seeding", "reading"} /\ (q.at = "seeding" <=> NothingStored(lines))
    BY <1>2 DEF Requests
<1>4. edit' = [edit EXCEPT ![r] = q]
    BY DEF Edit
<1> HIDE DEF q
<1>5. edit'[r] = q /\ \A p \in Edits \ {r} : edit'[p] = edit[p]
    BY <1>1, <1>4 DEF RowTypes
<1>6. RowTypes'
    BY <1>1, <1>3, <1>4 DEF RowTypes, seeded
<1>7. HasRead(edit[r])' /\ ~Flagging(edit'[r])
    BY <1>3, <1>5 DEF HasRead, Flagging
<1>8. OneFlags'
    BY <1>1, <1>5, <1>7 DEF RepertoireInv, OneFlags, seeded
<1>9. Droppings'
    <2>1. NothingStored(lines) => dropped = {}
        BY DEF RepertoireInv, Droppings, NothingStored, StoredRows
    <2> QED BY <1>1, <1>3, <1>5, <2>1 DEF RepertoireInv, Droppings, seeded
<1> QED BY <1>1, <1>5, <1>6, <1>7, <1>8, <1>9, EditMoves DEF seeded

LEMMA SeedFits ==
    ASSUME RepertoireInv, NEW r \in Edits, SeedDefaults(r)
    PROVE  RepertoireInv'
<1>1. RowTypes /\ keys \in Nat /\ edit[r].at = "seeding" /\ edit[r] \in Requests(keys)
    BY RequestFields DEF RepertoireInv, RowTypes, SeedDefaults
<1>2. CASE Answered(r) /\ UNCHANGED seeded
    <2>1. RowTypes' /\ HasRead(edit[r])' /\ edit'[r] = Resting
          /\ (\A q \in Edits \ {r} : edit'[q] = edit[q])
        BY <1>1, <1>2, AnsweredTypes DEF seeded, RowTypes
    <2>2. OneFlags'
        BY <1>1, <1>2, <2>1, RequestFields DEF RepertoireInv, OneFlags, seeded
    <2>3. Droppings'
        BY <1>2, <2>1 DEF RepertoireInv, Droppings, seeded, Resting
    <2> QED BY <1>2, <2>1, <2>2, <2>3, EditMoves DEF seeded
<1>3. CASE /\ StoredRows(lines) \intersect Defaults = {} /\ keys < MaxLines
           /\ lines' = FillDefaults(lines) /\ keys' = keys + 1
           /\ overlapped' = (overlapped \/ StoredRows(lines) # {} \/ \E q \in Edits : FlagEdit(q))
           /\ Doing(r, "reading") /\ UNCHANGED dropped
    <2>1. /\ \A f \in Ecos \ Defaults : lines'[f] = lines[f]
          /\ \A f \in Defaults : lines'[f].key = keys + 1 /\ (lines'[f].active <=> f = FavouriteEco)
          /\ lines' \in [Ecos -> Row(keys')]
        <3>1. \A f \in Ecos : lines[f] \in Row(keys + 1)
            BY <1>1, RowFields, RowGrows
        <3>2. \A f \in Ecos : [key |-> keys + 1, active |-> f = FavouriteEco] \in Row(keys + 1)
            BY <1>1 DEF Row
        <3> QED BY <1>3, <3>1, <3>2 DEF FillDefaults
    <2> DEFINE q == [edit[r] EXCEPT !.at = "reading"]
    <2>2. q \in Requests(keys) /\ q.at = "reading"
        BY <1>1 DEF Requests
    <2>3. edit' = [edit EXCEPT ![r] = q]
        BY <1>3 DEF Doing
    <2> HIDE DEF q
    <2>4. edit'[r] = q /\ \A p \in Edits \ {r} : edit'[p] = edit[p]
        BY <1>1, <2>3 DEF RowTypes
    <2>5. edit' \in [Edits -> {Resting} \union Requests(keys')]
        BY <1>1, <1>3, <2>2, <2>3, RowGrows DEF RowTypes
    <2>6. overlapped' \in BOOLEAN /\ (overlapped => overlapped')
          /\ (~overlapped' => StoredRows(lines) = {} /\ \A p \in Edits : ~Flagging(edit[p]))
        BY <1>1, <1>3 DEF RowTypes, FlagEdit, Flagging
    <2>7. RowTypes'
        <3>1. keys' \in 0..MaxLines /\ dropped' \subseteq Ecos
            BY <1>1, <1>3 DEF RowTypes
        <3>2. \A f \in Ecos : lines'[f].active => lines'[f].key # 0
            BY <1>1, <2>1 DEF RowTypes
        <3> QED BY <2>1, <2>5, <2>6, <3>1, <3>2 DEF RowTypes
    <2>8. HasRead(edit[r])' /\ ~Flagging(edit'[r])
        BY <2>2, <2>4 DEF HasRead, Flagging
    <2>9. ~overlapped' => \A f \in Ecos : lines'[f].active => f = FavouriteEco
        BY <1>1, <2>1, <2>6 DEF StoredRows, RowTypes
    <2>10. OneFlags'
        BY <2>4, <2>6, <2>8, <2>9 DEF OneFlags
    <2>11. Droppings'
        <3>1. dropped = {}
            BY <1>1 DEF RepertoireInv, Droppings
        <3> QED BY <1>3, <3>1 DEF Droppings
    <2>12. ~overlapped' => \A p \in Edits : ~(edit[p].at = "writing" /\ edit[p].op = "activate")
        BY <2>6 DEF Flagging
    <2> QED BY <2>4, <2>6, <2>7, <2>8, <2>10, <2>11, <2>12, EditMoves
<1> QED BY <1>2, <1>3 DEF SeedDefaults

LEMMA ReadFits ==
    ASSUME RepertoireInv, NEW r \in Edits, ReadLines(r)
    PROVE  RepertoireInv'
<1>1. RowTypes /\ keys \in Nat /\ edit[r].at = "reading" /\ edit[r] \in Requests(keys)
      /\ UNCHANGED <<lines, keys, dropped>> /\ edit[r].eco \in Ecos
    BY RequestFields DEF RepertoireInv, RowTypes, ReadLines
<1>2. CASE Answered(r) /\ UNCHANGED overlapped
    <2>1. RowTypes' /\ HasRead(edit[r])' /\ edit'[r] = Resting
          /\ (\A q \in Edits \ {r} : edit'[q] = edit[q])
        BY <1>1, <1>2, AnsweredTypes DEF RowTypes
    <2>2. OneFlags'
        BY <1>1, <1>2, <2>1, RequestFields DEF RepertoireInv, OneFlags
    <2>3. Droppings'
        BY <1>1, <1>2, <2>1 DEF RepertoireInv, Droppings, Resting
    <2> QED BY <1>1, <1>2, <2>1, <2>2, <2>3, EditMoves
<1>3. CASE /\ edit[r].op = "add" \/ lines[edit[r].eco].key # 0
           /\ edit' = [edit EXCEPT ![r].at = "writing", ![r].read = AsRead(edit[r])]
           /\ overlapped' = (overlapped \/ \E q \in Edits : FlagEdit(q))
    <2>1. PICK rd : rd = AsRead(edit[r])
        OBVIOUS
    <2>2. /\ rd \in [Ecos -> Row(keys)]
          /\ \A f \in Ecos : edit[r].op = "activate" \/ f = edit[r].eco => rd[f] = lines[f]
        BY <1>1, <2>1, RowFields, RowGrows DEF AsRead
    <2> DEFINE q == [edit[r] EXCEPT !.at = "writing", !.read = rd]
    <2>3. q \in Requests(keys) /\ q.at = "writing" /\ q.read = rd /\ q.op = edit[r].op
          /\ q.eco = edit[r].eco
        BY <1>1, <2>2 DEF Requests
    <2>4. edit' = [edit EXCEPT ![r] = q]
        BY <1>3, <2>1
    <2> HIDE DEF q
    <2>5. edit'[r] = q /\ \A p \in Edits \ {r} : edit'[p] = edit[p]
        BY <1>1, <2>4 DEF RowTypes
    <2>6. overlapped' \in BOOLEAN /\ (overlapped => overlapped')
          /\ (~overlapped' => \A p \in Edits : ~Flagging(edit[p]))
        BY <1>1, <1>3 DEF RowTypes, FlagEdit, Flagging
    <2>7. RowTypes'
        BY <1>1, <2>3, <2>4, <2>6 DEF RowTypes
    <2>8. HasRead(edit[r])'
        BY <1>1, <1>3, <2>2, <2>3, <2>5 DEF HasRead
    <2>9. OneFlags'
        BY <1>1, <2>5, <2>6 DEF RepertoireInv, OneFlags
    <2>10. Droppings'
        BY <1>1, <2>3, <2>5 DEF RepertoireInv, Droppings
    <2> QED BY <1>1, <2>5, <2>6, <2>7, <2>8, <2>9, <2>10, EditMoves
<1> QED BY <1>2, <1>3 DEF ReadLines

\* A write answers its request: the rows it leaves.
LEMMA WriteFits ==
    ASSUME RepertoireInv, NEW r \in Edits, edit[r].at = "writing", Answered(r),
           keys' \in {keys, keys + 1}, keys' \in 0..MaxLines, UNCHANGED overlapped,
           lines' \in [Ecos -> Row(keys')],
           \A f \in Ecos : lines'[f].active => lines'[f].key # 0,
           ~overlapped => \A e, f \in Ecos : lines'[e].active /\ lines'[f].active => e = f,
           ~overlapped /\ edit[r].op # "activate" =>
               \A f \in Ecos : lines'[f].active => lines[f].active,
           edit[r].op \in Ops, dropped' \subseteq Ecos, Droppings'
    PROVE  RepertoireInv'
<1>1. RowTypes' /\ HasRead(edit[r])' /\ edit'[r] = Resting
      /\ (\A q \in Edits \ {r} : edit'[q] = edit[q])
    BY AnsweredTypes DEF RepertoireInv, RowTypes
<1>2. OneFlags'
    <2>1. \A q \in Edits : Flagging(edit'[q]) => Flagging(edit[q])
        BY <1>1, RequestFields DEF RepertoireInv
    <2> QED BY <2>1 DEF RepertoireInv, OneFlags
<1>3. ~overlapped => \A q \in Edits \ {r} : edit[q].at = "writing" /\ edit[q].op = "activate" =>
                         \A f \in Ecos : lines'[f].active => lines[f].active
    <2> SUFFICES ASSUME ~overlapped, NEW q \in Edits \ {r},
                        edit[q].at = "writing", edit[q].op = "activate"
                 PROVE  edit[r].op # "activate"
        OBVIOUS
    <2> QED BY DEF RepertoireInv, OneFlags, Flagging
<1> QED BY <1>1, <1>2, <1>3, EditMoves

LEMMA ActivateFits ==
    ASSUME RepertoireInv, NEW r \in Edits, SetActiveOpening(r)
    PROVE  RepertoireInv'
<1> DEFINE q == edit[r]
           e == q.eco
<1>1. RowTypes /\ keys \in Nat /\ q.at = "writing" /\ q.op = "activate" /\ e \in Ecos
      /\ q.read \in [Ecos -> Row(keys)] /\ Answered(r) /\ UNCHANGED <<keys, dropped, overlapped>>
      /\ Droppings /\ q.read[e].key # 0
    BY RequestFields DEF RepertoireInv, RowTypes, SetActiveOpening, HasRead
<1>2. CASE SameRows(q.read)
    <2>1. lines' = Activated(e, q.read)
        BY <1>2 DEF SetActiveOpening
    <2>2. lines[e].key # 0
        BY <1>1, <1>2 DEF SameRows, StoredRows
    <2>3. \A f \in Ecos : /\ [lines[f] EXCEPT !.active = TRUE] \in Row(keys)
                         /\ [lines[f] EXCEPT !.active = TRUE].key = lines[f].key
                         /\ [lines[f] EXCEPT !.active = FALSE] \in Row(keys)
                         /\ [lines[f] EXCEPT !.active = FALSE].key = lines[f].key
                         /\ [lines[f] EXCEPT !.active = FALSE].active = FALSE
        BY <1>1, RowFields DEF Row
    <2>4. /\ lines' \in [Ecos -> Row(keys)] /\ \A f \in Ecos : lines'[f].key = lines[f].key
          /\ \A f \in Ecos \ {e} : lines'[f].active => lines[f].active /\ ~q.read[f].active
        BY <1>1, <2>1, <2>3, RowFields DEF Activated
    <2>5. ~overlapped => \A f \in Ecos : lines'[f].active => f = e
        BY <1>1, <2>4 DEF RepertoireInv, HasRead
    <2>6. \A f \in Ecos : lines'[f].active => lines'[f].key # 0
        BY <1>1, <2>2, <2>4 DEF RowTypes
    <2>7. Droppings'
        <3>1. \A p \in Edits : edit'[p].at = "seeding" => edit[p].at = "seeding"
            BY <1>1, RequestFields DEF Answered, RowTypes
        <3>2. dropped' = dropped /\ dropped \subseteq Ecos
            BY <1>1 DEF RowTypes
        <3>3. \A f \in Ecos : lines'[f].key = lines[f].key
            BY <2>4
        <3> HIDE DEF e, q
        <3>4. \A f \in dropped' : lines'[f].key = 0
            BY <1>1, <3>2, <3>3 DEF Droppings
        <3>5. (\A f \in Ecos : lines'[f].key = 0) => dropped' = {}
            BY <1>1, <3>2, <3>3 DEF Droppings
        <3>6. \A p \in Edits : edit'[p].at = "seeding" => dropped' = {}
            BY <1>1, <3>1, <3>2 DEF Droppings
        <3> QED BY <3>4, <3>5, <3>6 DEF Droppings
    <2> QED BY <1>1, <2>4, <2>5, <2>6, <2>7, WriteFits DEF RowTypes, Ops
<1>3. CASE ~SameRows(q.read)
    <2>1. lines' = lines
        BY <1>3 DEF SetActiveOpening
    <2>2. Droppings'
        <3>1. \A p \in Edits : edit'[p].at = "seeding" => edit[p].at = "seeding"
            BY <1>1, RequestFields DEF Answered, RowTypes
        <3> QED BY <1>1, <2>1, <3>1 DEF Droppings
    <2> QED BY <1>1, <2>1, <2>2, WriteFits DEF RowTypes, Ops, RepertoireInv, OneFlags
<1> QED BY <1>2, <1>3

LEMMA AddFits ==
    ASSUME RepertoireInv, NEW r \in Edits, AddOpening(r)
    PROVE  RepertoireInv'
<1> DEFINE e == edit[r].eco
<1>1. RowTypes /\ keys \in Nat /\ edit[r].at = "writing" /\ edit[r].op = "add" /\ e \in Ecos
      /\ Answered(r) /\ UNCHANGED overlapped /\ Droppings
    BY RequestFields DEF RepertoireInv, RowTypes, AddOpening
<1>2. \A p \in Edits : edit'[p].at = "seeding" => edit[p].at = "seeding"
    BY <1>1, RequestFields DEF Answered, RowTypes
<1>3. CASE lines' = lines /\ UNCHANGED <<keys, dropped>>
    <2>1. Droppings'
        BY <1>1, <1>2, <1>3 DEF Droppings
    <2> QED BY <1>1, <1>3, <2>1, WriteFits DEF RowTypes, Ops, RepertoireInv, OneFlags
<1>4. CASE lines' = [lines EXCEPT ![e].active = FALSE] /\ UNCHANGED <<keys, dropped>>
    <2> DEFINE w == [lines[e] EXCEPT !.active = FALSE]
    <2>1. w \in Row(keys) /\ w.key = lines[e].key /\ ~w.active
        BY <1>1, RowFields DEF Row
    <2>2. lines' = [lines EXCEPT ![e] = w]
        BY <1>4
    <2> HIDE DEF w
    <2>3. /\ lines' \in [Ecos -> Row(keys)] /\ \A f \in Ecos : lines'[f].key = lines[f].key
          /\ \A f \in Ecos : lines'[f].active => lines[f].active
        BY <1>1, <2>1, <2>2 DEF RowTypes
    <2>4. Droppings'
        BY <1>1, <1>2, <1>4, <2>3 DEF Droppings
    <2> QED BY <1>1, <1>4, <2>3, <2>4, WriteFits DEF RowTypes, Ops, RepertoireInv, OneFlags
<1>5. CASE /\ keys < MaxLines /\ lines' = [lines EXCEPT ![e] = [key |-> keys + 1, active |-> FALSE]]
           /\ keys' = keys + 1 /\ dropped' = dropped \ {e}
    <2> DEFINE w == [key |-> keys + 1, active |-> FALSE]
    <2>1. w \in Row(keys + 1) /\ w.key = keys + 1 /\ ~w.active
        BY <1>1 DEF Row
    <2> HIDE DEF w
    <2>2. lines' = [lines EXCEPT ![e] = w]
        BY <1>5 DEF w
    <2>3. lines \in [Ecos -> Row(keys + 1)]
        BY <1>1, RowGrows DEF RowTypes
    <2>4. /\ lines' \in [Ecos -> Row(keys')] /\ lines'[e] = w
          /\ \A f \in Ecos \ {e} : lines'[f] = lines[f]
        BY <1>1, <1>5, <2>1, <2>2, <2>3 DEF RowTypes
    <2>5. Droppings'
        BY <1>1, <1>2, <1>5, <2>1, <2>4 DEF Droppings
    <2>6. \A f \in Ecos : lines'[f].active => lines[f].active /\ lines'[f].key # 0
        BY <1>1, <2>1, <2>4 DEF RowTypes
    <2>7. keys' \in 0..MaxLines /\ dropped' \subseteq Ecos
        BY <1>1, <1>5 DEF RowTypes
    <2> QED BY <1>1, <1>5, <2>4, <2>5, <2>6, <2>7, WriteFits DEF Ops, RepertoireInv, OneFlags
<1> QED BY <1>3, <1>4, <1>5 DEF AddOpening

LEMMA DeleteFits ==
    ASSUME RepertoireInv, NEW r \in Edits, DeleteOpening(r)
    PROVE  RepertoireInv'
<1> DEFINE e == edit[r].eco
           left == IF lines[e].key = edit[r].read[e].key THEN [lines EXCEPT ![e] = Absent] ELSE lines
           seeding == \E q \in Edits : edit[q].at = "seeding"
<1>1. RowTypes /\ keys \in Nat /\ edit[r].at = "writing" /\ edit[r].op = "delete" /\ e \in Ecos
      /\ Answered(r) /\ UNCHANGED <<keys, overlapped>> /\ Droppings /\ lines' = left
      /\ dropped' = (IF StoredRows(left) = {} \/ seeding THEN {}
                     ELSE IF left = lines THEN dropped ELSE dropped \union {e})
    BY RequestFields DEF RepertoireInv, RowTypes, DeleteOpening
<1>2. \A p \in Edits : edit'[p].at = "seeding" => edit[p].at = "seeding"
    BY <1>1, RequestFields DEF Answered, RowTypes
<1>3. /\ lines' \in [Ecos -> Row(keys)]
      /\ \A f \in Ecos : lines'[f] = lines[f] \/ (lines'[f] = Absent /\ f = e)
      /\ left = lines \/ lines'[e] = Absent
    BY <1>1, RowGrows DEF RowTypes
<1>4. Absent.key = 0 /\ ~Absent.active
    BY DEF Absent
<1>5. dropped' \subseteq Ecos
    BY <1>1 DEF RowTypes
<1>6. Droppings'
    <2> HIDE DEF left, seeding
    <2>1. \A f \in dropped' : lines'[f].key = 0
        BY <1>1, <1>3, <1>4, <1>5 DEF Droppings
    <2>2. (\A f \in Ecos : lines'[f].key = 0) => dropped' = {}
        BY <1>1 DEF StoredRows
    <2>3. seeding => dropped' = {}
        BY <1>1
    <2> QED BY <1>2, <2>1, <2>2, <2>3 DEF Droppings, seeding
<1>7. \A f \in Ecos : lines'[f].active => lines[f].active /\ lines'[f].key # 0
    BY <1>1, <1>3, <1>4 DEF RowTypes
<1> HIDE DEF left, seeding
<1> QED BY <1>1, <1>3, <1>5, <1>6, <1>7, WriteFits DEF RowTypes, Ops, RepertoireInv, OneFlags

LEMMA DrillFits ==
    ASSUME RepertoireInv, NEW r \in Edits, DrillOpening(r)
    PROVE  RepertoireInv'
<1>1. RowTypes /\ edit[r].at = "writing" /\ edit[r].op = "drill" /\ Answered(r) /\ UNCHANGED seeded
      /\ Droppings
    BY DEF RepertoireInv, DrillOpening
<1>2. \A p \in Edits : edit'[p].at = "seeding" => edit[p].at = "seeding"
    BY <1>1, RequestFields DEF Answered, RowTypes
<1>3. Droppings'
    BY <1>1, <1>2 DEF Droppings, seeded
<1> QED BY <1>1, <1>3, WriteFits DEF RowTypes, Ops, RepertoireInv, OneFlags, seeded

LEMMA RepertoireStep == RepertoireInv /\ [RepertoireNext]_repertoireVars => RepertoireInv'
<1>1. RepertoireInv /\ UNCHANGED repertoireVars => RepertoireInv'
    BY DEF repertoireVars, RepertoireInv, RowTypes, HasRead, OneFlags, Droppings
<1> QED BY <1>1, EditFits, SeedFits, ReadFits, ActivateFits, AddFits, DeleteFits, DrillFits
        DEF RepertoireNext, Ops

LEMMA RepertoireStarts == RepertoireInit => RepertoireInv
<1> SUFFICES ASSUME RepertoireInit PROVE RepertoireInv
    OBVIOUS
<1>1. Absent \in Row(0) /\ Absent.key = 0 /\ ~Absent.active
    BY DEF Absent, Row
<1>2. RowTypes
    <2>1. keys = 0 /\ keys \in 0..MaxLines
        BY DEF RepertoireInit
    <2>2. lines \in [Ecos -> Row(keys)] /\ \A f \in Ecos : ~lines[f].active
        BY <1>1, <2>1 DEF RepertoireInit
    <2>3. edit \in [Edits -> {Resting} \union Requests(keys)]
        BY DEF RepertoireInit
    <2>4. dropped \subseteq Ecos /\ overlapped \in BOOLEAN
        BY DEF RepertoireInit
    <2> QED BY <2>1, <2>2, <2>3, <2>4 DEF RowTypes
<1>3. \A r \in Edits : edit[r].at = "idle"
    BY DEF RepertoireInit, Resting
<1> QED BY <1>1, <1>2, <1>3
        DEF RepertoireInit, RepertoireInv, HasRead, OneFlags, Flagging, Droppings

\* What is stored of a repertoire and what each request has read of it, for any set of
\* openings, defaults and overlapping requests.
THEOREM RepertoireInvariance == RepertoireSpec => []RepertoireInv
BY RepertoireStarts, RepertoireStep, PTL DEF RepertoireSpec

\* repo.py 415-416, router.py 238-262: while no two requests that write the flag have
\* overlapped there is at most one active line, and a deleted default comes back only
\* when the last line is deleted or it is added again.
THEOREM RepertoireIsSafe == RepertoireSpec => []RepertoireSafe
<1>1. RepertoireInv => RepertoireSafe
    <2> SUFFICES ASSUME RepertoireInv PROVE RepertoireSafe
        OBVIOUS
    <2>1. RepertoireTypeOK
        BY DEF RepertoireInv, RowTypes, RepertoireTypeOK, Row, ActiveLines, StoredRows
    <2>2. OneActiveUnlessOverlapped
        <3> SUFFICES ASSUME ~overlapped PROVE Cardinality(ActiveLines) <= 1
            BY DEF OneActiveUnlessOverlapped
        <3>1. ActiveLines = {} \/ \E e : ActiveLines = {e}
            BY DEF RepertoireInv, OneFlags, ActiveLines
        <3>2. CASE ActiveLines = {}
            BY <3>2, FS_EmptySet
        <3>3. ASSUME NEW e, ActiveLines = {e} PROVE Cardinality(ActiveLines) <= 1
            <4>1. Cardinality({e}) = 1
                BY FS_Singleton
            <4> QED BY <3>3, <4>1
        <3> QED BY <3>1, <3>2, <3>3
    <2>3. DroppedStaysDropped
        BY DEF RepertoireInv, Droppings, DroppedStaysDropped, StoredRows
    <2> QED BY <2>1, <2>2, <2>3 DEF RepertoireSafe
<1> QED BY <1>1, RepertoireInvariance, PTL

HIDE RepertoireAssumption

-----------------------------------------------------------------------------
(* The cache of engine scores (EvalCache) *)

USE EvalCacheAssumption

\* A score, a slot of the table, and a thread that waits for the engine.
Scores == [kind : {"score"}, of : Positions, by : Configs, age : Nat]
Slots == [key : Keys, entry : Scores]
AtEngine == [kind : {"engine"}, of : Positions]

\* A score is kept under the settings and the position it was computed for.
KeptFor(k, e) == e \in Scores /\ k = <<e.by, e.of>>

Table(t) ==
    /\ t \in Seq(Slots)
    /\ \A i \in DOMAIN t : KeptFor(t[i].key, t[i].entry)
    /\ \A i, j \in DOMAIN t : t[i].key = t[j].key => i = j

Stored == /\ store \in [Keys -> {Empty, Alien} \union Scores]
          /\ \A k \in Keys : store[k] \in Scores => KeptFor(k, store[k]) /\ store[k].age <= Ttl

Tabled == Table(memory) /\ Len(memory) <= MaxMemoryItems

AskTypes == /\ asking \in [Asking -> {Free} \union AtEngine]
            /\ config \in Configs /\ online \in BOOLEAN /\ linked \in BOOLEAN

CacheInv == Stored /\ Tabled /\ AskTypes

\* The kinds of record are told apart by their "kind".
LEMMA EntryKinds ==
    /\ Empty \notin Scores /\ Alien \notin Scores
    /\ Free \notin AtEngine
    /\ Empty.kind = "empty" /\ Alien.kind = "alien"
    /\ \A e \in Scores : e.kind = "score" /\ e.of \in Positions /\ e.by \in Configs /\ e.age \in Nat
    /\ \A e \in AtEngine : e.of \in Positions
BY DEF Scores, AtEngine, Empty, Alien, Free

LEMMA KeyIsKey ==
    ASSUME AskTypes, NEW p \in Positions
    PROVE  Key(p) \in Keys /\ Score(p) \in Scores /\ KeptFor(Key(p), Score(p)) /\ Score(p).age = 0
<1>1. config \in Configs
    BY DEF AskTypes
<1>2. Score(p) \in Scores /\ Score(p).by = config /\ Score(p).of = p /\ Score(p).age = 0
    BY <1>1 DEF Score, Scores
<1> QED BY <1>1, <1>2 DEF Key, Keys, KeptFor

\* Taking a key out leaves a table that has it no more.
LEMMA WithoutFits ==
    ASSUME Tabled, NEW k
    PROVE  /\ Table(Without(k)) /\ \A i \in DOMAIN Without(k) : Without(k)[i].key # k
           /\ Len(Without(k)) \in Nat
           /\ Len(Without(k)) <= MaxMemoryItems
           /\ Entries(k) # {} => Len(Without(k)) < MaxMemoryItems
<1>1. memory \in Seq(Slots) /\ Len(memory) \in Nat /\ Len(memory) <= MaxMemoryItems
      /\ DOMAIN memory = 1..Len(memory) /\ \A i \in DOMAIN memory : memory[i] \in Slots
    BY LenProperties, ElementOfSeq DEF Tabled, Table
<1>2. CASE Entries(k) = {}
    BY <1>1, <1>2 DEF Without, Entries, Tabled
<1>3. CASE Entries(k) # {}
    <2> DEFINE at == CHOOSE i \in DOMAIN memory : memory[i].key = k
               n == Len(memory) - 1
               skip(i) == IF i < at THEN i ELSE i + 1
    <2>1. at \in DOMAIN memory /\ memory[at].key = k
        BY <1>3 DEF Entries
    <2>2. n \in Nat /\ at \in 1..n + 1
        BY <1>1, <2>1
    <2>3. Without(k) = [i \in 1..n |-> memory[skip(i)]]
        BY <1>3 DEF Without
    <2> HIDE DEF at
    <2>4. \A i \in 1..n : skip(i) \in DOMAIN memory /\ skip(i) # at
        BY <1>1, <2>2
    <2>5. \A i, j \in 1..n : skip(i) = skip(j) => i = j
        BY <2>2
    <2> HIDE DEF skip
    <2>6. Without(k) \in [1..n -> Slots]
        BY <1>1, <2>3, <2>4
    <2>7. Without(k) \in Seq(Slots) /\ Len(Without(k)) = n /\ DOMAIN Without(k) = 1..n
        BY <2>2, <2>6, SeqDef, LenProperties
    <2> HIDE DEF n
    <2>8. \A i \in 1..n : Without(k)[i] = memory[skip(i)]
        BY <2>3
    <2>9. Table(Without(k))
        BY <2>4, <2>5, <2>7, <2>8 DEF Table, Tabled
    <2>10. \A i \in 1..n : Without(k)[i].key # k
        BY <2>1, <2>4, <2>8 DEF Table, Tabled
    <2> QED BY <1>1, <2>7, <2>9, <2>10 DEF n
<1> QED BY <1>2, <1>3

\* A key made the latest: a table again, of the one entry more at most.
LEMMA LatestFits ==
    ASSUME Tabled, NEW k \in Keys, NEW e, KeptFor(k, e)
    PROVE  /\ Table(MadeLatest(k, e))
           /\ Len(MadeLatest(k, e)) = Len(Without(k)) + 1
<1> DEFINE t == Without(k)
           s == [key |-> k, entry |-> e]
<1>1. Table(t) /\ (\A i \in DOMAIN t : t[i].key # k) /\ t \in Seq(Slots)
    BY WithoutFits DEF Table
<1>2. s \in Slots /\ s.key = k /\ s.entry = e
    BY DEF Slots, KeptFor
<1>3. MadeLatest(k, e) = Append(t, s)
    BY DEF MadeLatest
<1> HIDE DEF t, s
<1>4. /\ Append(t, s) \in Seq(Slots) /\ Len(Append(t, s)) = Len(t) + 1
      /\ DOMAIN Append(t, s) = 1..Len(t) + 1 /\ DOMAIN t = 1..Len(t) /\ Len(t) \in Nat
      /\ Append(t, s)[Len(t) + 1] = s
      /\ \A i \in 1..Len(t) : Append(t, s)[i] = t[i]
    BY <1>1, <1>2, AppendProperties, LenProperties
<1>5. \A i \in 1..Len(t) + 1 : i \in 1..Len(t) \/ i = Len(t) + 1
    BY <1>4
<1>6. \A i \in DOMAIN Append(t, s) : KeptFor(Append(t, s)[i].key, Append(t, s)[i].entry)
    BY <1>1, <1>2, <1>4, <1>5 DEF Table
<1>7. \A i, j \in DOMAIN Append(t, s) : Append(t, s)[i].key = Append(t, s)[j].key => i = j
    BY <1>1, <1>2, <1>4, <1>5 DEF Table
<1> QED BY <1>3, <1>4, <1>6, <1>7 DEF Table, t

\* The oldest entry goes when there is one too many.
LEMMA EvictedFits ==
    ASSUME NEW t, Table(t), Len(t) <= MaxMemoryItems + 1
    PROVE  Table(Evicted(t)) /\ Len(Evicted(t)) <= MaxMemoryItems
<1>1. t \in Seq(Slots) /\ Len(t) \in Nat /\ DOMAIN t = 1..Len(t)
    BY LenProperties DEF Table
<1>2. CASE Len(t) <= MaxMemoryItems
    BY <1>1, <1>2 DEF Evicted
<1>3. CASE Len(t) > MaxMemoryItems
    <2>1. t # << >> /\ Evicted(t) = Tail(t)
        BY <1>1, <1>3, EmptySeq DEF Evicted
    <2>2. /\ Tail(t) \in Seq(Slots) /\ Len(Tail(t)) = Len(t) - 1
          /\ \A i \in 1..Len(t) - 1 : Tail(t)[i] = t[i + 1]
        BY <1>1, <2>1, HeadTailProperties
    <2>3. DOMAIN Tail(t) = 1..Len(t) - 1
        BY <2>2, LenProperties
    <2>4. \A i \in 1..Len(t) - 1 : i + 1 \in DOMAIN t
        BY <1>1
    <2>5. \A i, j \in 1..Len(t) - 1 : i + 1 = j + 1 => i = j
        BY <1>1
    <2>6. Table(Tail(t))
        <3>1. \A i \in DOMAIN Tail(t) : KeptFor(Tail(t)[i].key, Tail(t)[i].entry)
            BY <2>2, <2>3, <2>4 DEF Table
        <3>2. \A i, j \in DOMAIN Tail(t) : Tail(t)[i].key = Tail(t)[j].key => i + 1 = j + 1
            BY <2>2, <2>3, <2>4 DEF Table
        <3> QED BY <2>2, <2>3, <2>5, <3>1, <3>2 DEF Table
    <2> QED BY <1>1, <2>1, <2>2, <2>6
<1> QED BY <1>1, <1>2, <1>3

\* What is answered is what is kept for the key; from the table, a score of its own.
LEMMA HitFits ==
    ASSUME CacheInv, NEW p \in Positions, NEW e \in Hit(p)
    PROVE  /\ \/ KeptFor(Key(p), e) /\ e.age <= Ttl
              \/ e = Alien /\ linked /\ online /\ store[Key(p)] = Alien
           /\ FromTable(p) => KeptFor(Key(p), e) /\ e.age <= Ttl
<1>1. Key(p) \in Keys
    BY KeyIsKey DEF CacheInv
<1>2. CASE linked /\ online /\ Validated(store[Key(p)])
    <2>1. e = store[Key(p)] /\ e.kind \in {"score", "alien"} /\ ~FromTable(p)
        BY <1>2 DEF Hit, FromTable, Validated
    <2>2. e \in Scores \/ e = Alien
        BY <1>1, <2>1, EntryKinds DEF CacheInv, Stored
    <2> QED BY <1>1, <1>2, <2>1, <2>2 DEF CacheInv, Stored
<1>3. CASE ~(linked /\ online /\ Validated(store[Key(p)]))
    <2>1. e \in Entries(Key(p)) /\ YoungEnough(e)
        BY <1>3 DEF Hit
    <2> QED BY <2>1 DEF Entries, YoungEnough, CacheInv, Tabled, Table
<1> QED BY <1>2, <1>3

LEMMA GetFits ==
    ASSUME CacheInv, NEW a \in Asking, NEW p \in Positions, Get(a, p)
    PROVE  CacheInv'
<1>1. Key(p) \in Keys /\ Tabled
    BY KeyIsKey DEF CacheInv
<1>2. Stored'
    BY DEF CacheInv, Stored, Get
<1>3. AskTypes'
    <2>1. [kind |-> "engine", of |-> p] \in AtEngine
        BY DEF AtEngine
    <2> QED BY <2>1 DEF CacheInv, AskTypes, Get
<1>4. Tabled'
    <2>1. CASE FromTable(p)
        <3>1. PICK e \in Hit(p) : memory' = MadeLatest(Key(p), e)
            BY <2>1 DEF Get, FromTable
        <3>2. KeptFor(Key(p), e)
            BY <2>1, HitFits
        <3>3. Entries(Key(p)) # {}
            BY <2>1 DEF FromTable, Hit
        <3>4. Table(memory') /\ Len(memory') = Len(Without(Key(p))) + 1
            BY <1>1, <3>1, <3>2, LatestFits
        <3>5. Len(Without(Key(p))) \in Nat /\ Len(Without(Key(p))) < MaxMemoryItems
            BY <1>1, <3>3, WithoutFits
        <3>6. Len(memory') <= MaxMemoryItems
            BY <3>4, <3>5
        <3> QED BY <3>4, <3>6 DEF Tabled, Table
    <2>2. CASE memory' = Without(Key(p))
        BY <1>1, <2>2, WithoutFits DEF Tabled, Table
    <2>3. CASE memory' = memory
        BY <1>1, <2>3 DEF Tabled, Table
    <2> QED BY <2>1, <2>2, <2>3 DEF Get
<1> QED BY <1>2, <1>3, <1>4 DEF CacheInv

LEMMA SetFits ==
    ASSUME CacheInv, NEW a \in Asking, Set(a)
    PROVE  CacheInv'
<1> DEFINE p == asking[a].of
<1>1. p \in Positions /\ AskTypes /\ Tabled /\ Stored
    BY EntryKinds DEF CacheInv, AskTypes, Set
<1>2. Key(p) \in Keys /\ Score(p) \in Scores /\ KeptFor(Key(p), Score(p)) /\ Score(p).age = 0
    BY <1>1, KeyIsKey
<1>3. AskTypes'
    BY <1>1 DEF AskTypes, Set
<1>4. Stored' /\ Tabled'
    <2>1. CASE store' = [store EXCEPT ![Key(p)] = Score(p)] /\ UNCHANGED memory
        <3>1. Tabled'
            BY <1>1, <2>1 DEF Tabled, Table
        <3> HIDE DEF p
        <3>2. store' \in [Keys -> {Empty, Alien} \union Scores]
            BY <1>1, <1>2, <2>1 DEF Stored
        <3>3. \A k \in Keys : store'[k] = IF k = Key(p) THEN Score(p) ELSE store[k]
            BY <1>1, <2>1 DEF Stored
        <3>4. 0 <= Ttl
            OBVIOUS
        <3> QED BY <1>1, <1>2, <3>1, <3>2, <3>3, <3>4 DEF Stored
    <2>2. CASE memory' = Evicted(MadeLatest(Key(p), Score(p))) /\ UNCHANGED store
        <3> HIDE DEF p
        <3>1. /\ Table(MadeLatest(Key(p), Score(p)))
              /\ Len(MadeLatest(Key(p), Score(p))) = Len(Without(Key(p))) + 1
            BY <1>1, <1>2, LatestFits
        <3>2. Len(Without(Key(p))) \in Nat /\ Len(Without(Key(p))) <= MaxMemoryItems
            BY <1>1, WithoutFits
        <3>3. Len(MadeLatest(Key(p), Score(p))) <= MaxMemoryItems + 1
            BY <3>1, <3>2
        <3>4. Table(memory') /\ Len(memory') <= MaxMemoryItems
            BY <2>2, <3>1, <3>3, EvictedFits
        <3> QED BY <1>1, <2>2, <3>4 DEF Tabled, Table, Stored
    <2> QED BY <2>1, <2>2 DEF Set
<1> QED BY <1>3, <1>4 DEF CacheInv

\* An entry grows older and stays what it is the score of.
LEMMA OlderFits ==
    ASSUME NEW e \in Scores
    PROVE  /\ Older(e) \in Scores /\ Older(e).of = e.of /\ Older(e).by = e.by
           /\ e.age < Ttl => Older(e).age <= Ttl
<1> DEFINE n == IF e.age > Ttl THEN e.age ELSE e.age + 1
<1>1. n \in Nat /\ (e.age < Ttl => n <= Ttl)
    BY EntryKinds
<1>2. Older(e) = [e EXCEPT !.age = n]
    BY DEF Older
<1> HIDE DEF n
<1>3. Older(e) \in Scores /\ Older(e).of = e.of /\ Older(e).by = e.by /\ Older(e).age = n
    BY <1>1, <1>2 DEF Scores
<1> QED BY <1>1, <1>3

LEMMA TickFits ==
    ASSUME CacheInv, Tick
    PROVE  CacheInv'
<1>1. Stored /\ Tabled /\ AskTypes
    BY DEF CacheInv
<1>2. AskTypes'
    BY <1>1 DEF AskTypes, Tick
<1>3. Stored'
    <2>1. ASSUME NEW k \in Keys
          PROVE  /\ store'[k] \in {Empty, Alien} \union Scores
                 /\ store'[k] \in Scores => KeptFor(k, store'[k]) /\ store'[k].age <= Ttl
        <3>1. store'[k] = IF store[k].kind # "score" THEN store[k]
                          ELSE IF store[k].age = Ttl THEN Empty ELSE Older(store[k])
            BY DEF Tick
        <3>2. CASE store[k] \notin Scores
            BY <1>1, <3>1, <3>2, EntryKinds DEF Stored
        <3>3. CASE store[k] \in Scores
            <4>1. KeptFor(k, store[k]) /\ store[k].age <= Ttl /\ store[k].kind = "score"
                  /\ store[k].age \in Nat
                BY <1>1, <3>3, EntryKinds DEF Stored
            <4>2. CASE store[k].age = Ttl
                BY <3>1, <4>1, <4>2, EntryKinds
            <4>3. CASE store[k].age # Ttl
                <5>1. store[k].age < Ttl
                    BY <4>1, <4>3
                <5>2. store'[k] = Older(store[k])
                    BY <3>1, <4>1, <4>3
                <5> QED BY <3>3, <4>1, <5>1, <5>2, OlderFits DEF KeptFor
            <4> QED BY <4>2, <4>3
        <3> QED BY <3>2, <3>3
    <2>2. store' \in [Keys -> {Empty, Alien} \union Scores]
        BY <2>1 DEF Tick
    <2> QED BY <2>1, <2>2 DEF Stored
<1>4. Tabled'
    <2>1. memory \in Seq(Slots) /\ Len(memory) \in Nat /\ DOMAIN memory = 1..Len(memory)
          /\ \A i \in DOMAIN memory : memory[i] \in Slots
        BY <1>1, LenProperties, ElementOfSeq DEF Tabled, Table
    <2>2. ASSUME NEW i \in DOMAIN memory
          PROVE  /\ memory'[i] \in Slots /\ memory'[i].key = memory[i].key
                 /\ memory'[i].entry = Older(memory[i].entry)
        <3>1. memory'[i] = [memory[i] EXCEPT !.entry = Older(memory[i].entry)]
            BY DEF Tick
        <3>2. memory[i] \in Slots /\ Older(memory[i].entry) \in Scores
            BY <2>1, OlderFits DEF Slots
        <3> QED BY <3>1, <3>2 DEF Slots
    <2>3. memory' \in [1..Len(memory) -> Slots]
        BY <2>1, <2>2 DEF Tick
    <2>4. memory' \in Seq(Slots) /\ Len(memory') = Len(memory) /\ DOMAIN memory' = 1..Len(memory)
        BY <2>1, <2>3, SeqDef, LenProperties
    <2>5. \A i \in DOMAIN memory : KeptFor(memory'[i].key, memory'[i].entry)
        <3> SUFFICES ASSUME NEW i \in DOMAIN memory PROVE KeptFor(memory'[i].key, memory'[i].entry)
            OBVIOUS
        <3>1. KeptFor(memory[i].key, memory[i].entry)
            BY <1>1 DEF Tabled, Table
        <3> QED BY <2>2, <3>1, OlderFits DEF KeptFor
    <2>6. \A i, j \in DOMAIN memory : memory'[i].key = memory'[j].key => i = j
        BY <1>1, <2>2 DEF Tabled, Table
    <2> QED BY <1>1, <2>1, <2>4, <2>5, <2>6 DEF Tabled, Table
<1> QED BY <1>2, <1>3, <1>4 DEF CacheInv

LEMMA EmptyTable == Table(<< >>) /\ Len(<< >>) <= MaxMemoryItems
<1>1. << >> \in Seq(Slots) /\ Len(<< >>) = 0 /\ DOMAIN << >> = {}
    BY EmptySeq
<1> QED BY <1>1 DEF Table

LEMMA OtherCacheSteps ==
    ASSUME CacheInv, (\E a \in Asking : Miss(a)) \/ Flap \/ Corrupt \/ Redeploy \/ UNCHANGED cacheVars
    PROVE  CacheInv'
<1>1. ASSUME NEW a \in Asking, Miss(a) PROVE CacheInv'
    BY <1>1 DEF Miss, CacheInv, Stored, Tabled, Table, AskTypes
<1>2. CASE Flap
    BY <1>2 DEF Flap, CacheInv, Stored, Tabled, Table, AskTypes
<1>3. CASE Corrupt
    <2>1. PICK k \in Keys, e \in {Empty, Alien} : store' = [store EXCEPT ![k] = e]
        BY <1>3 DEF Corrupt
    <2>2. Stored'
        BY <2>1, EntryKinds DEF CacheInv, Stored
    <2> QED BY <1>3, <2>2 DEF Corrupt, CacheInv, Tabled, Table, AskTypes
<1>4. CASE Redeploy
    <2>1. Tabled'
        BY <1>4, EmptyTable DEF Redeploy, Tabled
    <2>2. Stored' /\ AskTypes'
        BY <1>4 DEF Redeploy, CacheInv, Stored, AskTypes
    <2> QED BY <2>1, <2>2 DEF CacheInv
<1>5. CASE UNCHANGED cacheVars
    BY <1>5 DEF cacheVars, CacheInv, Stored, Tabled, Table, AskTypes
<1> QED BY <1>1, <1>2, <1>3, <1>4, <1>5

LEMMA CacheStarts == CacheInit => CacheInv
<1> SUFFICES ASSUME CacheInit PROVE CacheInv
    OBVIOUS
<1>1. Tabled
    BY EmptyTable DEF CacheInit, Tabled
<1>2. Stored
    BY EntryKinds DEF CacheInit, Stored
<1>3. AskTypes
    BY DEF CacheInit, AskTypes
<1> QED BY <1>1, <1>2, <1>3 DEF CacheInv

\* What this program put into Redis and the table is the score of the position and the
\* settings it is kept under, and what another writer put into Redis is never in the table,
\* for any positions, settings, threads and sizes.
THEOREM CacheInvariance == CacheSpec => []CacheInv
<1>1. CacheInv /\ [CacheNext]_cacheVars => CacheInv'
    BY GetFits, SetFits, TickFits, OtherCacheSteps DEF CacheNext
<1> QED BY <1>1, CacheStarts, PTL DEF CacheSpec

\* pool.py, FenEvalCache: a position is answered with its own score, of the present
\* settings and not too old, or with what another writer has in Redis under its key at
\* that moment, and the table stays within its bound.
THEOREM CacheIsSafe == CacheSpec => []CacheSafe
<1>1. CacheInv => CacheSafe
    <2> SUFFICES ASSUME CacheInv PROVE CacheSafe
        OBVIOUS
    <2>1. CacheTypeOK
        BY EntryKinds DEF CacheInv, Tabled, Table, AskTypes, CacheTypeOK
    <2>2. ASSUME NEW p \in Positions, NEW e \in Hit(p)
          PROVE  \/ e.kind = "score" /\ e.of = p /\ e.by = config /\ e.age <= Ttl
                 \/ e = Alien /\ linked /\ online /\ store[Key(p)] = Alien
        BY <2>2, HitFits, EntryKinds DEF KeptFor, Key
    <2> QED BY <2>1, <2>2 DEF CacheSafe, HitsAreOwnAndFresh
<1> QED BY <1>1, CacheInvariance, PTL

HIDE EvalCacheAssumption

-----------------------------------------------------------------------------
(* The study week (StudyWeek) *)

USE StudyAssumption

\* A stored plan and an open sheet.
Plans == [status : {"active", "completed"}, born : 0..LastDay, done : SUBSET WeekSlots]
OpenSheets == [at : {"drill", "crediting", "credited", "completing"}, event : Events,
               slot : WeekSlots, xp : Nat, done : SUBSET WeekSlots]

\* The days of a plan are solved in order, and the last makes it completed.
PlanFits(p) ==
    /\ p \in Plans
    /\ p.status = "completed" <=> p.done = WeekSlots
    /\ \A s \in p.done : /\ \A r \in WeekSlots : r < s => r \in p.done
                         /\ today >= p.born + PlanDays[s]

\* A sheet is of a day that was due, and what it has read was so when it read it.
SheetFits(h) ==
    /\ h \in OpenSheets /\ plan[h.event] # NoPlan
    /\ \A r \in WeekSlots : r < h.slot => r \in plan[h.event].done
    /\ today >= plan[h.event].born + PlanDays[h.slot]
    /\ h.at = "crediting" => h.xp <= Cardinality(solved)
    /\ h.at = "completing" =>
          /\ h.done \subseteq plan[h.event].done
          /\ \A r \in WeekSlots : r < h.slot => r \in h.done

WeekTypes ==
    /\ plan \in [Events -> {NoPlan} \union Plans]
    /\ drill \in [Drills -> {Closed} \union OpenSheets]
    /\ task \in [Events -> {"queued", "minting", "enriching", "over"}]
    /\ today \in 0..LastDay /\ drops \in 0..MaxDrops

PlansFit ==
    /\ \A e \in Events : plan[e] = NoPlan \/ PlanFits(plan[e])
    /\ \A t \in Events : task[t] \in {"queued", "minting"} => plan[t] = NoPlan
SheetsFit == \A d \in Drills : drill[d] = Closed \/ SheetFits(drill[d])
Paid == xp \in Nat /\ IsFiniteSet(solved) /\ xp <= Cardinality(solved)
Listed ==
    /\ minted \in Seq(Events) /\ IsFiniteSet(Minted) /\ Len(minted) = Cardinality(Minted)
    /\ {minted[i] : i \in DOMAIN minted} = Minted

WeekInv == WeekTypes /\ PlansFit /\ SheetsFit /\ Paid /\ Listed

LEMMA DaysAreDays ==
    /\ \A s \in WeekSlots : PlanDays[s] \in Nat
    /\ LastDay \in Nat
<1>1. \A s \in 1..3 : PlanDays[s] \in Nat
    BY ElementOfSeq
<1> QED BY <1>1 DEF WeekSlots, LastDay

\* The kinds of record are told apart by their fields.
LEMMA WeekKinds ==
    /\ NoPlan \notin Plans /\ NoPlan.status = "none"
    /\ Closed \notin OpenSheets /\ Closed.at = "closed"
    /\ \A p \in Plans : p.status \in {"active", "completed"} /\ p.born \in 0..LastDay
                        /\ p.done \subseteq WeekSlots
    /\ \A h \in OpenSheets : h.at \in {"drill", "crediting", "credited", "completing"}
                             /\ h.event \in Events /\ h.slot \in WeekSlots /\ h.xp \in Nat
                             /\ h.done \subseteq WeekSlots
BY DEF Plans, NoPlan, Closed, OpenSheets

\* Nothing a sheet relies on goes away.
Grows ==
    /\ \A e \in Events : plan[e] # NoPlan =>
          plan'[e] # NoPlan /\ plan'[e].born = plan[e].born /\ plan[e].done \subseteq plan'[e].done
    /\ today' >= today /\ Cardinality(solved') >= Cardinality(solved)

LEMMA SheetStays ==
    ASSUME WeekInv, WeekTypes', IsFiniteSet(solved'), Grows, NEW d \in Drills, drill'[d] = drill[d]
    PROVE  drill'[d] = Closed \/ SheetFits(drill[d])'
<1> SUFFICES ASSUME drill[d] # Closed PROVE SheetFits(drill[d])'
    OBVIOUS
<1>1. SheetFits(drill[d])
    BY DEF WeekInv, SheetsFit
<1>2. drill[d] \in OpenSheets /\ drill[d].event \in Events /\ drill[d].slot \in WeekSlots
      /\ drill[d].xp \in Nat
    BY <1>1, WeekKinds DEF SheetFits
<1> DEFINE e == drill[d].event
<1>3. plan'[e] # NoPlan /\ plan'[e].born = plan[e].born /\ plan[e].done \subseteq plan'[e].done
    BY <1>1, <1>2 DEF Grows, SheetFits
<1>4. plan[e].born \in Nat /\ today \in Nat /\ today' \in Nat /\ PlanDays[drill[d].slot] \in Nat
    BY <1>1, <1>2, WeekKinds, DaysAreDays DEF WeekInv, WeekTypes, SheetFits
<1>5. today' >= plan'[e].born + PlanDays[drill[d].slot]
    BY <1>1, <1>3, <1>4 DEF Grows, SheetFits
<1>6. Cardinality(solved) \in Nat /\ Cardinality(solved') \in Nat
    BY FS_CardinalityType DEF WeekInv, Paid
<1>7. drill[d].at = "crediting" => drill[d].xp <= Cardinality(solved')
    BY <1>1, <1>2, <1>6 DEF Grows, SheetFits
<1> QED BY <1>1, <1>2, <1>3, <1>5, <1>7 DEF SheetFits

LEMMA PlanStays ==
    ASSUME WeekInv, WeekTypes', today' >= today, NEW e \in Events, plan'[e] = plan[e]
    PROVE  plan'[e] = NoPlan \/ PlanFits(plan[e])'
<1> SUFFICES ASSUME plan[e] # NoPlan PROVE PlanFits(plan[e])'
    OBVIOUS
<1>1. PlanFits(plan[e]) /\ plan[e] \in Plans
    BY DEF WeekInv, PlansFit, PlanFits
<1>2. plan[e].born \in Nat /\ today \in Nat /\ today' \in Nat
      /\ \A s \in plan[e].done : s \in WeekSlots /\ PlanDays[s] \in Nat
    BY <1>1, WeekKinds, DaysAreDays DEF WeekInv, WeekTypes
<1>3. \A s \in plan[e].done : today' >= plan[e].born + PlanDays[s]
    BY <1>1, <1>2 DEF PlanFits
<1> QED BY <1>1, <1>3 DEF PlanFits

\* The background task and the clock: no sheet and no plan is touched.
LEMMA TaskFits ==
    ASSUME WeekInv, NEW t \in Events, Check(t) \/ Enrich(t)
    PROVE  WeekInv'
<1>1. WeekTypes'
    BY DEF WeekInv, WeekTypes, Check, Enrich, TaskAt, weekly, others
<1>2. Grows /\ today' >= today /\ UNCHANGED <<plan, minted, drill, solved, xp, today>>
    BY FS_CardinalityType, DaysAreDays
       DEF WeekInv, WeekTypes, Paid, Grows, Check, Enrich, weekly, others
<1>3. \A u \in Events : task'[u] \in {"queued", "minting"} => task[u] \in {"queued", "minting"}
    BY DEF WeekInv, WeekTypes, Check, Enrich, TaskAt
<1>4. PlansFit'
    BY <1>1, <1>2, <1>3, PlanStays DEF WeekInv, PlansFit
<1>5. SheetsFit'
    BY <1>1, <1>2, SheetStays DEF WeekInv, SheetsFit, Paid
<1>6. Paid' /\ Listed'
    BY <1>2 DEF WeekInv, Paid, Listed, Minted
<1> QED BY <1>1, <1>4, <1>5, <1>6 DEF WeekInv

LEMMA MintFits ==
    ASSUME WeekInv, NEW t \in Events, Mint(t)
    PROVE  WeekInv'
<1>1. plan[t] = NoPlan /\ plan' = [plan EXCEPT ![t] = NewPlan] /\ minted' = Append(minted, t)
      /\ task' = [task EXCEPT ![t] = "enriching"] /\ UNCHANGED others
    BY DEF WeekInv, PlansFit, Mint, TaskAt
<1>2. NewPlan \in Plans /\ NewPlan.done = {} /\ NewPlan.status = "active"
    BY DEF WeekInv, WeekTypes, NewPlan, Plans
<1>3. plan'[t] = NewPlan /\ \A e \in Events \ {t} : plan'[e] = plan[e]
    BY <1>1 DEF WeekInv, WeekTypes
<1>4. WeekTypes'
    BY <1>1, <1>2 DEF WeekInv, WeekTypes, others
<1>5. Grows /\ today' >= today
    BY <1>1, <1>3, FS_CardinalityType, DaysAreDays DEF WeekInv, WeekTypes, Paid, Grows, others
<1>6. PlansFit'
    <2>1. PlanFits(plan[t])'
        <3>1. {} # WeekSlots
            BY DEF WeekSlots
        <3> QED BY <1>2, <1>3, <3>1 DEF PlanFits
    <2>2. \A e \in Events \ {t} : plan'[e] = NoPlan \/ PlanFits(plan[e])'
        BY <1>3, <1>4, <1>5, PlanStays
    <2>3. \A u \in Events : task'[u] \in {"queued", "minting"} => u # t /\ task[u] = task'[u]
        BY <1>1 DEF WeekInv, WeekTypes
    <2> QED BY <1>3, <2>1, <2>2, <2>3 DEF WeekInv, PlansFit
<1>7. SheetsFit'
    BY <1>1, <1>4, <1>5, SheetStays DEF WeekInv, SheetsFit, Paid, others
<1>8. Paid'
    BY <1>1 DEF WeekInv, Paid, others
<1>9. Listed'
    <2>1. Minted' = Minted \union {t} /\ t \notin Minted
        BY <1>1, <1>2, <1>3, WeekKinds DEF Minted
    <2>2. IsFiniteSet(Minted') /\ Cardinality(Minted') = Cardinality(Minted) + 1
        BY <2>1, FS_AddElement DEF WeekInv, Listed
    <2>3. minted \in Seq(Events) /\ Len(minted) \in Nat /\ DOMAIN minted = 1..Len(minted)
        BY LenProperties DEF WeekInv, Listed
    <2>4. minted' \in Seq(Events) /\ Len(minted') = Len(minted) + 1 /\ DOMAIN minted' = 1..Len(minted) + 1
          /\ minted'[Len(minted) + 1] = t /\ \A i \in 1..Len(minted) : minted'[i] = minted[i]
        BY <1>1, <2>3, AppendProperties
    <2>5. \A i \in 1..Len(minted) + 1 : i \in 1..Len(minted) \/ i = Len(minted) + 1
        BY <2>3
    <2>6. 1..Len(minted) \subseteq 1..Len(minted) + 1 /\ Len(minted) + 1 \in 1..Len(minted) + 1
        BY <2>3
    <2>7. {minted'[i] : i \in DOMAIN minted'} = {minted[i] : i \in DOMAIN minted} \union {t}
        <3>1. \A i \in DOMAIN minted' : minted'[i] \in {minted[k] : k \in DOMAIN minted} \union {t}
            BY <2>3, <2>4, <2>5
        <3>2. \A i \in DOMAIN minted : i \in DOMAIN minted' /\ minted'[i] = minted[i]
            BY <2>3, <2>4, <2>6
        <3>3. Len(minted) + 1 \in DOMAIN minted' /\ minted'[Len(minted) + 1] = t
            BY <2>4, <2>6
        <3> QED BY <3>1, <3>2, <3>3
    <2>8. {minted'[i] : i \in DOMAIN minted'} = Minted'
        BY <2>1, <2>7 DEF WeekInv, Listed
    <2> QED BY <2>2, <2>4, <2>8 DEF WeekInv, Listed
<1> QED BY <1>4, <1>6, <1>7, <1>8, <1>9 DEF WeekInv

LEMMA ClosingFits ==
    ASSUME WeekInv, WeekTypes', UNCHANGED <<plan, minted, solved, xp>>, today' >= today,
           \A u \in Events : task'[u] \in {"queued", "minting"} => task[u] \in {"queued", "minting"},
           \A d \in Drills : drill'[d] = drill[d] \/ drill'[d] = Closed \/ SheetFits(drill[d])'
    PROVE  WeekInv'
<1>1. Grows
    BY FS_CardinalityType DEF WeekInv, Paid, Grows
<1>2. PlansFit'
    BY PlanStays DEF WeekInv, PlansFit
<1>3. SheetsFit'
    BY <1>1, SheetStays DEF WeekInv, SheetsFit, Paid
<1>4. Paid'
    BY DEF WeekInv, Paid
<1>5. Listed'
    <2>1. Minted' = Minted
        BY DEF Minted
    <2> QED BY <2>1 DEF WeekInv, Listed
<1> QED BY <1>2, <1>3, <1>4, <1>5 DEF WeekInv

LEMMA QuietWeek ==
    ASSUME WeekInv, Restart \/ Midnight \/ (\E d \in Drills : Drop(d)) \/ UNCHANGED studyVars
    PROVE  WeekInv'
<1>1. today \in Nat /\ LastDay \in Nat /\ drops \in Nat
    BY DaysAreDays DEF WeekInv, WeekTypes
<1>2. CASE Restart
    <2>1. WeekTypes'
        BY <1>2 DEF WeekInv, WeekTypes, Restart, weekly, credit
    <2>2. today' >= today
        BY <1>1, <1>2 DEF Restart
    <2> QED BY <1>2, <2>1, <2>2, ClosingFits DEF Restart, weekly, credit
<1>3. CASE Midnight
    <2>1. today' = today + 1 /\ today' \in 0..LastDay /\ today' >= today
        BY <1>1, <1>3 DEF Midnight
    <2>2. WeekTypes'
        BY <1>3, <2>1 DEF WeekInv, WeekTypes, Midnight, weekly, credit
    <2> QED BY <1>3, <2>1, <2>2, ClosingFits DEF Midnight, weekly, credit
<1>4. ASSUME NEW d \in Drills, Drop(d) PROVE WeekInv'
    <2>1. drops' \in 0..MaxDrops
        BY <1>1, <1>4 DEF Drop
    <2>2. WeekTypes'
        BY <1>4, <2>1 DEF WeekInv, WeekTypes, Drop, weekly, credit
    <2>3. today' >= today
        BY <1>1, <1>4 DEF Drop
    <2>4. \A c \in Drills : drill'[c] = drill[c] \/ drill'[c] = Closed
        BY <1>4 DEF WeekInv, WeekTypes, Drop
    <2> QED BY <1>4, <2>2, <2>3, <2>4, ClosingFits DEF Drop, weekly, credit
<1>5. CASE UNCHANGED studyVars
    <2>1. WeekTypes'
        BY <1>5 DEF WeekInv, WeekTypes, studyVars
    <2>2. today' >= today
        BY <1>1, <1>5 DEF studyVars
    <2> QED BY <1>5, <2>1, <2>2, ClosingFits DEF studyVars
<1> QED BY <1>2, <1>3, <1>4, <1>5

LEMMA OpenFits ==
    ASSUME WeekInv, NEW d \in Drills, Open(d)
    PROVE  WeekInv'
<1>1. PICK e \in Latest : \E s \in DueSlot(plan[e]) :
          drill' = [drill EXCEPT ![d] = [at |-> "drill", event |-> e, slot |-> s, xp |-> 0, done |-> {}]]
    BY DEF Open
<1>1a. PICK s \in DueSlot(plan[e]) :
          drill' = [drill EXCEPT ![d] = [at |-> "drill", event |-> e, slot |-> s, xp |-> 0, done |-> {}]]
    BY <1>1
<1>2. e \in Events /\ plan[e] # NoPlan /\ s \in WeekSlots
      /\ (\A r \in WeekSlots : r < s => r \in plan[e].done) /\ plan[e].born + PlanDays[s] <= today
    BY DEF Latest, ActivePlans, Minted, DueSlot
<1> DEFINE h == [at |-> "drill", event |-> e, slot |-> s, xp |-> 0, done |-> {}]
<1>3. h \in OpenSheets /\ h.at = "drill" /\ h.event = e /\ h.slot = s
    BY <1>2 DEF OpenSheets
<1>4. drill' = [drill EXCEPT ![d] = h]
    BY <1>1a
<1> HIDE DEF h
<1>5. drill'[d] = h /\ \A c \in Drills \ {d} : drill'[c] = drill[c]
    BY <1>4 DEF WeekInv, WeekTypes
<1>6. UNCHANGED <<plan, minted, task, today, solved, xp, drops>>
    BY DEF Open, weekly, credit
<1>7. WeekTypes'
    BY <1>3, <1>4, <1>6 DEF WeekInv, WeekTypes
<1>8. today \in Nat /\ today' >= today
    BY <1>6, DaysAreDays DEF WeekInv, WeekTypes
<1>9. plan[e].born \in Nat /\ PlanDays[s] \in Nat
    BY <1>2, WeekKinds, DaysAreDays DEF WeekInv, WeekTypes
<1>10. today >= plan[e].born + PlanDays[s]
    BY <1>2, <1>8, <1>9
<1>11. SheetFits(drill[d])'
    BY <1>2, <1>3, <1>5, <1>6, <1>10 DEF SheetFits
<1> QED BY <1>5, <1>6, <1>7, <1>8, <1>11, ClosingFits

\* A sheet goes on to its next call with what it has read.
LEMMA SheetGoesOn ==
    ASSUME WeekInv, NEW d \in Drills, drill[d] # Closed,
           NEW s \in {"drill", "crediting", "credited", "completing"}, NEW x \in Nat,
           NEW days \in SUBSET WeekSlots, Sheet(d, s, x, days)
    PROVE  /\ drill' \in [Drills -> {Closed} \union OpenSheets]
           /\ \A c \in Drills \ {d} : drill'[c] = drill[c]
           /\ drill'[d] \in OpenSheets /\ drill'[d].at = s /\ drill'[d].event = drill[d].event
           /\ drill'[d].slot = drill[d].slot /\ drill'[d].xp = x /\ drill'[d].done = days
<1>1. drill \in [Drills -> {Closed} \union OpenSheets] /\ drill[d].event \in Events
      /\ drill[d].slot \in WeekSlots
    BY WeekKinds DEF WeekInv, WeekTypes
<1> DEFINE h == [at |-> s, event |-> drill[d].event, slot |-> drill[d].slot, xp |-> x, done |-> days]
<1>2. h \in OpenSheets /\ h.at = s /\ h.event = drill[d].event /\ h.slot = drill[d].slot
      /\ h.xp = x /\ h.done = days
    BY <1>1 DEF OpenSheets
<1>3. drill' = [drill EXCEPT ![d] = h]
    BY DEF Sheet
<1> HIDE DEF h
<1> QED BY <1>1, <1>2, <1>3

LEMMA SolveFits ==
    ASSUME WeekInv, NEW d \in Drills, Solve(d)
    PROVE  WeekInv'
<1>1. drill[d] # Closed /\ SheetFits(drill[d])
    BY WeekKinds DEF WeekInv, SheetsFit, Solve
<1>2. UNCHANGED <<plan, minted, task, today, drops, solved, xp>>
    BY DEF Solve, served, weekly, credit
<1>3. PICK s \in {"credited", "crediting"}, x \in {0, xp} :
          Sheet(d, s, x, {}) /\ (s = "crediting" => x = xp)
    BY DEF Solve
<1>4. x \in Nat /\ x <= Cardinality(solved)
    BY FS_CardinalityType DEF WeekInv, Paid
<1>5. /\ drill' \in [Drills -> {Closed} \union OpenSheets]
      /\ \A c \in Drills \ {d} : drill'[c] = drill[c]
      /\ drill'[d] \in OpenSheets /\ drill'[d].at = s /\ drill'[d].event = drill[d].event
      /\ drill'[d].slot = drill[d].slot /\ drill'[d].xp = x
    BY <1>1, <1>3, <1>4, SheetGoesOn
<1>6. WeekTypes' /\ today' >= today
    BY <1>2, <1>5, DaysAreDays DEF WeekInv, WeekTypes
<1>7. SheetFits(drill[d])'
    BY <1>1, <1>2, <1>4, <1>5 DEF SheetFits
<1> QED BY <1>2, <1>5, <1>6, <1>7, ClosingFits

LEMMA ReadPlanFits ==
    ASSUME WeekInv, NEW d \in Drills, ReadPlan(d)
    PROVE  WeekInv'
<1>1. drill[d] # Closed /\ SheetFits(drill[d])
    BY WeekKinds DEF WeekInv, SheetsFit, ReadPlan
<1>2. UNCHANGED <<plan, minted, task, today, drops, solved, xp>>
      /\ Sheet(d, "completing", 0, plan[drill[d].event].done)
    BY DEF ReadPlan, served, weekly, credit
<1>3. plan[drill[d].event].done \in SUBSET WeekSlots
    BY <1>1, WeekKinds DEF SheetFits, WeekInv, WeekTypes
<1>4. /\ drill' \in [Drills -> {Closed} \union OpenSheets]
      /\ \A c \in Drills \ {d} : drill'[c] = drill[c]
      /\ drill'[d] \in OpenSheets /\ drill'[d].at = "completing" /\ drill'[d].event = drill[d].event
      /\ drill'[d].slot = drill[d].slot /\ drill'[d].done = plan[drill[d].event].done
    BY <1>1, <1>2, <1>3, SheetGoesOn
<1>5. WeekTypes' /\ today' >= today
    BY <1>2, <1>4, DaysAreDays DEF WeekInv, WeekTypes
<1>6. SheetFits(drill[d])'
    BY <1>1, <1>2, <1>4 DEF SheetFits
<1> QED BY <1>2, <1>4, <1>5, <1>6, ClosingFits

LEMMA CreditFits ==
    ASSUME WeekInv, NEW d \in Drills, Credit(d)
    PROVE  WeekInv'
<1>1. drill[d] # Closed /\ SheetFits(drill[d]) /\ drill[d].at = "crediting"
    BY WeekKinds DEF WeekInv, SheetsFit, Credit
<1>2. UNCHANGED <<plan, minted, task, today, drops>> /\ Sheet(d, "credited", 0, {})
    BY DEF Credit, served, weekly
<1>3. /\ drill' \in [Drills -> {Closed} \union OpenSheets]
      /\ \A c \in Drills \ {d} : drill'[c] = drill[c]
      /\ drill'[d] \in OpenSheets /\ drill'[d].at = "credited" /\ drill'[d].event = drill[d].event
      /\ drill'[d].slot = drill[d].slot
    <2>1. PICK s \in {"drill", "crediting", "credited", "completing"} : s = "credited"
      OBVIOUS
    <2>2. PICK x \in Nat : x = 0
      OBVIOUS
    <2>3. PICK days \in SUBSET WeekSlots : days = {}
      OBVIOUS
    <2>4. Sheet(d, s, x, days)
      BY <1>2, <2>1, <2>2, <2>3
    <2>5. /\ drill' \in [Drills -> {Closed} \union OpenSheets]
          /\ \A c \in Drills \ {d} : drill'[c] = drill[c]
          /\ drill'[d] \in OpenSheets /\ drill'[d].at = s /\ drill'[d].event = drill[d].event
          /\ drill'[d].slot = drill[d].slot
      BY <1>1, <2>4, SheetGoesOn
    <2> QED BY <2>1, <2>5
<1>4. WeekTypes' /\ today' >= today
    BY <1>2, <1>3, DaysAreDays DEF WeekInv, WeekTypes
<1>5. Cardinality(solved) \in Nat /\ IsFiniteSet(solved) /\ drill[d].xp \in Nat
      /\ drill[d].xp <= Cardinality(solved)
    BY <1>1, WeekKinds, FS_CardinalityType DEF WeekInv, Paid, SheetFits
<1>6. Paid' /\ Cardinality(solved') >= Cardinality(solved)
    <2>1. CASE UNCHANGED credit
        BY <1>5, <2>1 DEF credit, WeekInv, Paid
    <2>2. CASE Ref(d) \notin solved /\ solved' = solved \cup {Ref(d)} /\ xp' = drill[d].xp + 1
        <3>1. IsFiniteSet(solved') /\ Cardinality(solved') = Cardinality(solved) + 1
            BY <1>5, <2>2, FS_AddElement
        <3> QED BY <1>5, <2>2, <3>1 DEF Paid
    <2> QED BY <2>1, <2>2 DEF Credit
<1>7. Grows
    BY <1>2, <1>4, <1>6 DEF Grows
<1>8. PlansFit'
    BY <1>2, <1>4, PlanStays DEF WeekInv, PlansFit
<1>9. SheetFits(drill[d])'
    BY <1>1, <1>2, <1>3 DEF SheetFits
<1>10. SheetsFit'
    BY <1>3, <1>4, <1>6, <1>7, <1>9, SheetStays DEF WeekInv, SheetsFit, Paid
<1>11. Listed'
    BY <1>2 DEF WeekInv, Listed, Minted
<1> QED BY <1>4, <1>6, <1>8, <1>10, <1>11 DEF WeekInv

\* The days were served in order, so the last is in no sheet before the others are solved:
\* the days read are all the days exactly when the days stored are.
LEMMA CompleteFits ==
    ASSUME WeekInv, NEW d \in Drills, Complete(d)
    PROVE  WeekInv'
<1>0. PICK e, s : e = drill[d].event /\ s = drill[d].slot
    OBVIOUS
<1> DEFINE days == plan[e].done \cup {s}
           all == drill[d].done \cup {s} = WeekSlots
           p == [plan[e] EXCEPT !.done = days, !.status = IF all THEN "completed" ELSE plan[e].status]
<1>1. drill[d] # Closed /\ SheetFits(drill[d]) /\ drill[d].at = "completing"
    BY WeekKinds DEF WeekInv, SheetsFit, Complete
<1>2. e \in Events /\ s \in WeekSlots /\ plan[e] # NoPlan /\ plan[e] \in Plans /\ PlanFits(plan[e])
      /\ drill[d].done \subseteq plan[e].done
      /\ (\A r \in WeekSlots : r < s => r \in drill[d].done)
      /\ today >= plan[e].born + PlanDays[s]
    BY <1>0, <1>1, WeekKinds DEF WeekInv, WeekTypes, PlansFit, SheetFits
<1>3. p \in Plans /\ p.done = days /\ p.born = plan[e].born
      /\ p.status = (IF all THEN "completed" ELSE plan[e].status)
    BY <1>2 DEF Plans
<1>4. plan' = [plan EXCEPT ![e] = p]
    BY <1>0 DEF Complete, AllDone
<1>5. drill' = [drill EXCEPT ![d] = Closed] /\ UNCHANGED <<minted, task, today, solved, xp, drops>>
    BY DEF Complete, credit
<1>6. all => days = WeekSlots
    BY <1>2, WeekKinds DEF WeekSlots
<1>7. days = WeekSlots => all \/ plan[e].done = WeekSlots
    <2> SUFFICES ASSUME days = WeekSlots, plan[e].done # WeekSlots PROVE all
        OBVIOUS
    <2>1. s = 3
        <3>1. 3 \in WeekSlots /\ 3 \in days
            BY DEF WeekSlots
        <3>2. CASE 3 \in plan[e].done
            <4>1. \A r \in WeekSlots : r < 3 => r \in plan[e].done
                BY <1>2, <3>2 DEF PlanFits
            <4>2. 1 \in plan[e].done /\ 2 \in plan[e].done
                BY <4>1 DEF WeekSlots
            <4>3. plan[e].done \subseteq WeekSlots
                BY <1>2, WeekKinds
            <4> QED BY <3>2, <4>2, <4>3 DEF WeekSlots
        <3> QED BY <3>1, <3>2
    <2>2. 1 \in drill[d].done /\ 2 \in drill[d].done
        BY <1>2, <2>1 DEF WeekSlots
    <2>3. drill[d].done \subseteq WeekSlots
        BY <1>2, WeekKinds
    <2> QED BY <2>1, <2>2, <2>3 DEF WeekSlots
<1>9. p.status = "completed" <=> days = WeekSlots
    <2>1. plan[e].status = "completed" <=> plan[e].done = WeekSlots
        BY <1>2 DEF PlanFits
    <2>2. plan[e].done = WeekSlots => days = WeekSlots
        BY <1>2
    <2> QED BY <1>3, <1>6, <1>7, <2>1, <2>2
<1>10. \A x \in days : /\ \A r \in WeekSlots : r < x => r \in days
                       /\ today >= plan[e].born + PlanDays[x]
    <2> SUFFICES ASSUME NEW x \in days
                 PROVE  (\A r \in WeekSlots : r < x => r \in days) /\ today >= plan[e].born + PlanDays[x]
        OBVIOUS
    <2>1. CASE x = s
        BY <1>2, <2>1
    <2>2. CASE x \in plan[e].done
        BY <1>2, <2>2 DEF PlanFits
    <2> QED BY <2>1, <2>2
<1> HIDE DEF p, all
<1>11. plan'[e] = p /\ \A f \in Events \ {e} : plan'[f] = plan[f]
    BY <1>2, <1>4 DEF WeekInv, WeekTypes
<1>12. WeekTypes' /\ today' >= today
    <2>1. drill' \in [Drills -> {Closed} \union OpenSheets]
        BY <1>5 DEF WeekInv, WeekTypes
    <2>2. plan' \in [Events -> {NoPlan} \union Plans]
        BY <1>3, <1>4 DEF WeekInv, WeekTypes
    <2>3. today' >= today
        BY <1>5, DaysAreDays DEF WeekInv, WeekTypes
    <2> QED BY <1>5, <2>1, <2>2, <2>3 DEF WeekInv, WeekTypes
<1>13. p # NoPlan
    BY <1>3, WeekKinds
<1>14. Grows
    <2>1. Cardinality(solved') >= Cardinality(solved)
        BY <1>5, FS_CardinalityType DEF WeekInv, Paid
    <2>2. ASSUME NEW f \in Events, plan[f] # NoPlan
          PROVE  plan'[f] # NoPlan /\ plan'[f].born = plan[f].born /\ plan[f].done \subseteq plan'[f].done
        <3>1. CASE f = e
            BY <1>3, <1>11, <1>13, <3>1
        <3>2. CASE f # e
            BY <1>11, <2>2, <3>2
        <3> QED BY <3>1, <3>2
    <2> QED BY <1>12, <2>1, <2>2 DEF Grows
<1>15. PlanFits(plan[e])'
    BY <1>3, <1>5, <1>9, <1>10, <1>11 DEF PlanFits
<1>16. PlansFit'
    <2>1. \A f \in Events : plan'[f] = NoPlan \/ PlanFits(plan[f])'
        BY <1>11, <1>12, <1>15, PlanStays
    <2>2. \A t \in Events : task'[t] \in {"queued", "minting"} => t # e
        BY <1>2, <1>5 DEF WeekInv, PlansFit
    <2> QED BY <1>5, <1>11, <2>1, <2>2 DEF WeekInv, PlansFit
<1>17. SheetsFit'
    <2>1. drill'[d] = Closed /\ \A c \in Drills \ {d} : drill'[c] = drill[c]
        BY <1>5 DEF WeekInv, WeekTypes
    <2> QED BY <1>5, <1>12, <1>14, <2>1, SheetStays DEF WeekInv, SheetsFit, Paid
<1>18. Paid'
    BY <1>5 DEF WeekInv, Paid
<1>19. Listed'
    <2>1. Minted' = Minted
        BY <1>2, <1>11, <1>13 DEF Minted
    <2> QED BY <1>5, <2>1 DEF WeekInv, Listed
<1> QED BY <1>12, <1>16, <1>17, <1>18, <1>19 DEF WeekInv

LEMMA WeekStarts == StudyInit => WeekInv
<1> SUFFICES ASSUME StudyInit PROVE WeekInv
    OBVIOUS
<1>1. WeekTypes
    <2>1. plan \in [Events -> {NoPlan} \union Plans] /\ drill \in [Drills -> {Closed} \union OpenSheets]
        BY DEF StudyInit
    <2>2. task \in [Events -> {"queued", "minting", "enriching", "over"}]
        BY DEF StudyInit
    <2>3. today \in 0..LastDay /\ drops \in 0..MaxDrops
        BY DaysAreDays DEF StudyInit
    <2> QED BY <2>1, <2>2, <2>3 DEF WeekTypes
<1>2. PlansFit /\ SheetsFit
    BY DEF StudyInit, PlansFit, SheetsFit
<1>3. Paid
    BY FS_EmptySet DEF StudyInit, Paid
<1>4. Listed
    <2>1. Minted = {}
        BY DEF StudyInit, Minted
    <2> QED BY <2>1, FS_EmptySet, EmptySeq DEF StudyInit, Listed
<1> QED BY <1>1, <1>2, <1>3, <1>4 DEF WeekInv

\* What the plans, the sheets on the devices and the counters know of each other, for any
\* number of games and devices and any three days.
THEOREM WeekInvariance == StudySpec => []WeekInv
<1>1. WeekInv /\ [StudyNext]_studyVars => WeekInv'
    <2> SUFFICES ASSUME WeekInv, [StudyNext]_studyVars PROVE WeekInv'
        OBVIOUS
    <2>1. ASSUME NEW t \in Events, Background(t) PROVE WeekInv'
        BY <2>1, TaskFits, MintFits DEF Background
    <2>2. ASSUME NEW d \in Drills, Sheets(d) PROVE WeekInv'
        BY <2>2, OpenFits, SolveFits, CreditFits, ReadPlanFits, CompleteFits DEF Sheets
    <2> QED BY <2>1, <2>2, QuietWeek DEF StudyNext
<1> QED BY <1>1, WeekStarts, PTL DEF StudySpec

\* study_plan/router.py: a plan is completed exactly when its three days are solved, which
\* complete_puzzle decides from days it read before its commit; days are solved in order
\* and when they are due; and a puzzle is credited once.
THEOREM WeekIsSafe == StudySpec => []WeekSafe
<1>1. WeekInv => WeekSafe
    <2> SUFFICES ASSUME WeekInv PROVE WeekSafe
        OBVIOUS
    <2>1. \A e \in Minted : e \in Events /\ PlanFits(plan[e]) /\ plan[e] \in Plans
        BY DEF WeekInv, PlansFit, PlanFits, Minted
    <2>2. \A d \in Drills : drill[d] # Closed => drill[d] \in OpenSheets /\ drill[d].event \in Minted
        BY WeekKinds DEF WeekInv, SheetsFit, SheetFits, Minted
    <2>3. StudyTypeOK
        BY <2>1, <2>2, WeekKinds DEF WeekInv, WeekTypes, Paid, Listed, StudyTypeOK
    <2>4. SolvedWeekIsCompleted /\ DaysInOrder
        BY <2>1 DEF PlanFits, SolvedWeekIsCompleted, DaysInOrder
    <2>5. NoDoubleCredit
        BY DEF WeekInv, Paid, NoDoubleCredit
    <2> QED BY <2>3, <2>4, <2>5 DEF WeekSafe
<1> QED BY <1>1, WeekInvariance, PTL

-----------------------------------------------------------------------------
(* The puzzles of a study week (PracticePuzzles) *)

Wants == [skill : 1..3, weak : SUBSET Named]

\* What the hunt has kept: the player's own side, each puzzle once.
MatchedFits(s) ==
    /\ s \in Seq(Upstream)
    /\ \A i \in DOMAIN s : s[i].mine
    /\ \A i, j \in DOMAIN s : s[i] = s[j] => i = j

\* The bands are asked for in the order of the list, again and again.
InOrder(s, skill) == \A i \in DOMAIN s : s[i] = DifficultyOrder(skill)[((i - 1) % 5) + 1]

PracticeInv ==
    /\ want \in Wants /\ theme \in Named \union {"generic"}
    /\ stage \in {"new", "verdict", "hunt", "pick", "done"}
    /\ tried \in 0..2 /\ (stage = "new" => tried = 0) /\ (stage = "verdict" => tried \in 0..1)
    /\ asked \in Seq(1..5) /\ Len(asked) <= FetchBudget /\ InOrder(asked, want.skill)
    /\ stage = "new" => asked = <<>>
    /\ MatchedFits(matched)
    /\ week # <<>> => /\ stage = "done"
                      /\ \/ Len(matched) >= 2 /\ week = FirstTwo(matched)
                         \/ week \in LibraryPairs

\* A set of numbers has a least one.
LEMMA LeastOf == ASSUME NEW S \in SUBSET Nat, S # {} PROVE \E m \in S : \A n \in S : m <= n
<1>1. PICK m \in S : \A n \in S : ~(<<n, m>> \in OpToRel(<, Nat))
  BY NatLessThanWellFounded, WFMin
<1>2. \A n \in S : ~(n < m)
  BY <1>1 DEF OpToRel
<1>3. \A n \in S : m \in Nat /\ n \in Nat
  BY <1>1
<1>4. ASSUME NEW n \in S PROVE m <= n
  <2>1. m \in Nat /\ n \in Nat /\ ~(n < m)
    BY <1>2, <1>3, <1>4
  <2> QED BY ONLY <2>1
<1> QED BY <1>1, <1>4

\* Exactly one element.
LEMMA OneElement ==
    ASSUME NEW S, IsFiniteSet(S), Cardinality(S) = 1
    PROVE  \E x \in S : S = {x}
<1>1. S # {}
  BY FS_EmptySet
<1>2. PICK x \in S : TRUE
  BY <1>1
<1>3. IsFiniteSet(S \ {x}) /\ Cardinality(S \ {x}) = 0
  BY FS_RemoveElement
<1>4. S \ {x} = {}
  BY <1>3, FS_EmptySet
<1> QED BY <1>2, <1>4

\* The first two places of what was kept are different, and longer puzzles take them.
LEMMA TwoPlaces ==
    ASSUME NEW s, MatchedFits(s), Len(s) >= 2,
           NEW a, a = (CHOOSE i \in DOMAIN s : Place(s, i) = 1),
           NEW b, b = (CHOOSE i \in DOMAIN s : Place(s, i) = 2)
    PROVE  /\ a \in DOMAIN s /\ b \in DOMAIN s /\ a # b
           /\ Cardinality(ManyMoves(s)) >= 2 => s[a].multi /\ s[b].multi
<1>1. PICK n \in Nat : n = Len(s) /\ DOMAIN s = 1..n /\ n >= 2
  BY LenProperties DEF MatchedFits
<1>2. \A i \in 1..n : s[i] \in Upstream /\ s[i].multi \in BOOLEAN
  BY <1>1, ElementOfSeq, PracticeAssumption DEF MatchedFits
<1>3. ManyMoves(s) \subseteq 1..n /\ 1..n \in SUBSET Nat /\ IsFiniteSet(1..n)
      /\ \A i \in 1..n : i \in ManyMoves(s) <=> s[i].multi
  <2>1. IsFiniteSet(1..n)
    BY FS_Interval
  <2>2. ManyMoves(s) = {i \in 1..n : s[i].multi}
    BY <1>1 DEF ManyMoves
  <2> QED BY <2>1, <2>2
<1> DEFINE before(i) == {j \in 1..n : Ahead(s, j, i)}
<1>4. \A i \in 1..n : Place(s, i) = 1 + Cardinality(before(i)) /\ IsFiniteSet(before(i))
                      /\ Cardinality(before(i)) \in Nat
  BY <1>1, <1>3, FS_Subset, FS_CardinalityType DEF Place
\* The least of a set that holds all longer puzzles left, if there are any.
<1>5. ASSUME NEW D \in SUBSET (1..n), D # {}
      PROVE  \E m \in D : \A j \in D \ {m} : ~Ahead(s, j, m) /\ Ahead(s, m, j)
  <2>1. CASE D \intersect ManyMoves(s) # {}
    <3>1. PICK m \in D \intersect ManyMoves(s) : \A k \in D \intersect ManyMoves(s) : m <= k
      BY <1>3, <2>1, LeastOf
    <3>2. ASSUME NEW j \in D \ {m} PROVE ~Ahead(s, j, m) /\ Ahead(s, m, j)
      <4>1. CASE s[j].multi
        <5>1. m <= j /\ j # m /\ j \in Nat /\ m \in Nat /\ s[m].multi
          BY <1>3, <3>1, <3>2, <4>1
        <5> QED BY <1>2, <1>3, <4>1, <5>1, <3>1 DEF Ahead
      <4>2. CASE ~s[j].multi
        BY <1>2, <1>3, <3>1, <3>2, <4>2 DEF Ahead
      <4> QED BY <4>1, <4>2
    <3> QED BY <3>1, <3>2
  <2>2. CASE D \intersect ManyMoves(s) = {}
    <3>1. PICK m \in D : \A k \in D : m <= k
      BY <1>3, <1>5, LeastOf
    <3>2. ASSUME NEW j \in D \ {m} PROVE ~Ahead(s, j, m) /\ Ahead(s, m, j)
      <4>1. m <= j /\ j # m /\ j \in Nat /\ m \in Nat /\ s[m].multi = FALSE /\ s[j].multi = FALSE
        <5>1. m \in 1..n /\ j \in 1..n /\ m \notin ManyMoves(s) /\ j \notin ManyMoves(s)
          BY <2>2, <3>1, <3>2
        <5>2. m <= j /\ j # m
          BY <3>1, <3>2
        <5> QED BY <1>2, <1>3, <5>1, <5>2
      <4>2. m < j /\ ~(j < m)
        BY ONLY <4>1
      <4> QED BY <4>1, <4>2 DEF Ahead
    <3> QED BY <3>1, <3>2
  <2> QED BY <2>1, <2>2
<1>6. \A i \in 1..n : ~Ahead(s, i, i)
  BY <1>2 DEF Ahead
<1>7. \E i \in 1..n : Place(s, i) = 1
  <2>1. 1..n # {}
    BY <1>1
  <2>2. PICK m \in 1..n : \A j \in (1..n) \ {m} : ~Ahead(s, j, m)
    BY <1>5, <2>1
  <2>3. before(m) = {}
    BY <1>6, <2>2
  <2> QED BY <1>4, <2>3, FS_EmptySet
<1>8. \E i \in 1..n : Place(s, i) = 2
  <2>1. 1..n # {}
    BY <1>1
  <2>2. PICK m \in 1..n : \A j \in (1..n) \ {m} : ~Ahead(s, j, m) /\ Ahead(s, m, j)
    BY <1>5, <2>1
  <2>3. (1..n) \ {m} # {}
    <3>1. 1 \in 1..n /\ 2 \in 1..n
      BY <1>1
    <3>2. CASE m = 1
      <4>1. 2 \in (1..n) \ {m}
        BY <3>1, <3>2
      <4> QED BY <4>1
    <3>3. CASE m # 1
      <4>1. 1 \in (1..n) \ {m}
        BY <3>1, <3>3
      <4> QED BY <4>1
    <3> QED BY <3>2, <3>3
  <2>4. PICK k \in (1..n) \ {m} : \A j \in ((1..n) \ {m}) \ {k} : ~Ahead(s, j, k)
    BY <1>5, <2>3
  <2>5. before(k) = {m}
    BY <1>6, <2>2, <2>4
  <2>6. Cardinality(before(k)) = 1
    <3> HIDE DEF before
    <3> QED BY <2>5, FS_Singleton
  <2>7. Place(s, k) = 1 + Cardinality(before(k)) /\ k \in 1..n
    BY <1>4, <2>4
  <2>8. Place(s, k) = 2
    <3> HIDE DEF before
    <3> QED BY <2>6, <2>7
  <2> QED BY <2>7, <2>8
<1>9. a \in 1..n /\ Place(s, a) = 1 /\ b \in 1..n /\ Place(s, b) = 2
  BY <1>1, <1>7, <1>8
<1>10. before(a) = {} /\ \E x \in before(b) : before(b) = {x}
  <2>1. PICK k \in Nat, l \in Nat : k = Cardinality(before(a)) /\ l = Cardinality(before(b))
    BY <1>4, <1>9
  <2>2. 1 + k = 1 /\ 1 + l = 2
    <3>1. Place(s, a) = 1 + Cardinality(before(a)) /\ Place(s, b) = 1 + Cardinality(before(b))
      BY <1>4, <1>9
    <3> HIDE DEF before
    <3> QED BY <1>9, <2>1, <3>1
  <2>3. k = 0 /\ l = 1
    BY ONLY <2>2, k \in Nat, l \in Nat
  <2>4. IsFiniteSet(before(a)) /\ IsFiniteSet(before(b))
    BY <1>4, <1>9
  <2> HIDE DEF before
  <2>5. before(a) = {}
    BY <2>1, <2>3, <2>4, FS_EmptySet
  <2>6. \E x \in before(b) : before(b) = {x}
    BY <2>1, <2>3, <2>4, OneElement
  <2> QED BY <2>5, <2>6
<1>11. ASSUME Cardinality(ManyMoves(s)) >= 2 PROVE s[a].multi /\ s[b].multi
  <2>1. ManyMoves(s) # {} /\ \A x : ~(ManyMoves(s) \subseteq {x})
    <3>1. Cardinality({}) = 0
      BY FS_EmptySet
    <3>2. ASSUME NEW x, ManyMoves(s) \subseteq {x} PROVE FALSE
      <4>1. IsFiniteSet({x}) /\ Cardinality({x}) = 1
        BY FS_Singleton
      <4>2. Cardinality(ManyMoves(s)) <= 1
        BY <3>2, <4>1, FS_Subset
      <4>3. Cardinality(ManyMoves(s)) \in Nat
        BY <1>3, FS_Subset, FS_CardinalityType
      <4> QED BY <1>11, <4>2, <4>3
    <3> QED BY <1>11, <3>1, <3>2
  <2>2. ASSUME NEW i \in 1..n, ~s[i].multi PROVE ManyMoves(s) \subseteq before(i)
    BY <1>2, <1>3, <2>2 DEF Ahead
  <2> QED BY <1>9, <1>10, <2>1, <2>2
<1> QED BY <1>1, <1>9, <1>11

\* A pair from Lichess: two puzzles of what was kept, the easier one first.
LEMMA FirstTwoFits ==
    ASSUME NEW s, MatchedFits(s), Len(s) >= 2
    PROVE  /\ FirstTwo(s)[1] \in Upstream /\ FirstTwo(s)[2] \in Upstream
           /\ FirstTwo(s)[1] # FirstTwo(s)[2] /\ Len(FirstTwo(s)) = 2
           /\ FirstTwo(s)[1].mine /\ FirstTwo(s)[2].mine
           /\ FirstTwo(s)[1].rating <= FirstTwo(s)[2].rating
           /\ Cardinality(ManyMoves(s)) >= 2 => FirstTwo(s)[1].multi /\ FirstTwo(s)[2].multi
<1>1. PICK a : a = CHOOSE i \in DOMAIN s : Place(s, i) = 1
  OBVIOUS
<1>2. PICK b : b = CHOOSE i \in DOMAIN s : Place(s, i) = 2
  OBVIOUS
<1>3. /\ a \in DOMAIN s /\ b \in DOMAIN s /\ a # b
      /\ Cardinality(ManyMoves(s)) >= 2 => s[a].multi /\ s[b].multi
  BY <1>1, <1>2, TwoPlaces
<1>4. PICK p \in Upstream, q \in Upstream : p = s[a] /\ q = s[b]
  <2>1. DOMAIN s = 1..Len(s)
    BY LenProperties DEF MatchedFits
  <2> QED BY <1>3, <2>1, ElementOfSeq DEF MatchedFits
<1>5. p # q /\ p.mine /\ q.mine /\ p.rating \in Nat /\ q.rating \in Nat
  BY <1>3, <1>4, PracticeAssumption DEF MatchedFits
<1>6. Nth(s, 1) = p /\ Nth(s, 2) = q
  BY <1>1, <1>2, <1>4 DEF Nth
<1>7. FirstTwo(s) = IF q.rating < p.rating THEN <<q, p>> ELSE <<p, q>>
  BY <1>6 DEF FirstTwo
<1>8. CASE q.rating < p.rating
  <2>1. FirstTwo(s) = <<q, p>>
    BY <1>7, <1>8
  <2> QED BY <1>3, <1>4, <1>5, <1>8, <2>1
<1>9. CASE ~(q.rating < p.rating)
  <2>1. FirstTwo(s) = <<p, q>>
    BY <1>7, <1>9
  <2> QED BY <1>3, <1>4, <1>5, <1>9, <2>1
<1> QED BY <1>8, <1>9

\* Which library pairs the selectors may give, and when they repeat a puzzle.
LEMMA FittingIn == \A pool : Fitting(pool) \subseteq pool
BY DEF Fitting

LEMMA ThemesAdd == \A A, B : OfTheme(A \union B) = OfTheme(A) \union OfTheme(B)
BY DEF OfTheme

LEMMA ThemePool == \A A : OfTheme(A) \subseteq Library /\ IsFiniteSet(OfTheme(A))
BY PracticeAssumption, FS_Subset DEF OfTheme

LEMMA Several ==
    ASSUME NEW S, IsFiniteSet(S), S # {}, Cardinality(S) # 1
    PROVE  Cardinality(S) >= 2
<1>1. PICK n \in Nat : n = Cardinality(S)
  BY FS_CardinalityType
<1>2. n # 0 /\ n # 1
  BY <1>1, FS_EmptySet
<1>3. n >= 2
  BY ONLY <1>2, n \in Nat
<1> QED BY <1>1, <1>3

LEMMA TwoFromPool ==
    ASSUME NEW pool, IsFiniteSet(pool), NEW pq \in TwoFrom(pool)
    PROVE  \E p \in pool, q \in pool : pq = <<p, q>> /\ (p = q => Fitting(pool) = {p})
<1>1. PICK fit : fit = Fitting(pool)
  OBVIOUS
<1>2. fit \subseteq pool /\ IsFiniteSet(fit)
  BY <1>1, FittingIn, FS_Subset
<1>3. CASE Cardinality(fit) = 1
  <2>1. PICK p \in fit : fit = {p}
    BY <1>2, <1>3, OneElement
  <2>2. TwoFrom(pool) = {<<x, x>> : x \in fit}
    BY <1>1, <1>3 DEF TwoFrom
  <2>3. pq = <<p, p>>
    BY <2>1, <2>2
  <2> QED BY <1>1, <1>2, <2>1, <2>3
<1>4. CASE Cardinality(fit) # 1
  <2>1. TwoFrom(pool) = {xy \in fit \X fit : xy[1] # xy[2]}
    BY <1>1, <1>4 DEF TwoFrom
  <2>2. PICK p \in fit, q \in fit : pq = <<p, q>>
    BY <2>1
  <2>3. p # q
    BY <2>1, <2>2
  <2> QED BY <1>2, <2>2, <2>3
<1> QED BY <1>3, <1>4

LEMMA BackfilledPool ==
    ASSUME NEW n \in Nat, NEW pools, DOMAIN pools = 1..n, NEW p, NEW pq \in Backfilled(p, pools)
    PROVE  \/ pq = <<p, p>> /\ \A i \in 1..n : pools[i] \subseteq {p}
           \/ \E i \in 1..n : \E q \in pools[i] : q # p /\ pq = <<p, q>>
<1>1. PICK full : full = {i \in DOMAIN pools : pools[i] \ {p} # {}}
  OBVIOUS
<1>2. CASE full = {}
  <2>1. Backfilled(p, pools) = {<<p, p>>}
    BY <1>1, <1>2 DEF Backfilled
  <2> QED BY <1>1, <1>2, <2>1
<1>3. CASE full # {}
  <2>1. PICK c : c = CHOOSE i \in full : \A j \in full : i <= j
    OBVIOUS
  <2>2. full \in SUBSET Nat
    BY <1>1
  <2>3. c \in full
    BY <1>3, <2>1, <2>2, LeastOf
  <2>4. Backfilled(p, pools) = {<<p, q>> : q \in Fitting(pools[c] \ {p})}
    BY <1>1, <1>3, <2>1 DEF Backfilled
  <2>5. PICK q \in Fitting(pools[c] \ {p}) : pq = <<p, q>>
    BY <2>4
  <2>6. q \in pools[c] \ {p}
    BY <2>5, FittingIn
  <2> QED BY <1>1, <2>3, <2>5, <2>6
<1> QED BY <1>2, <1>3

\* No source of the plan has a second puzzle to give, or the skill filter left one.
Starved(p) ==
    \/ OfTheme({theme} \union want.weak \union {"generic"}) = {p}
    \/ \E ths \in {{theme}, want.weak, {"generic"}} :
          Cardinality(OfTheme(ths)) >= 2 /\ Fitting(OfTheme(ths)) = {p}

\* A pool that holds several puzzles.
LEMMA FromSeveral ==
    ASSUME NEW ths \in {{theme}, want.weak, {"generic"}}, NEW pool, pool = OfTheme(ths),
           pool # {}, Cardinality(pool) # 1, NEW pq \in TwoFrom(pool)
    PROVE  \E p \in Library, q \in Library : pq = <<p, q>> /\ (p = q => Starved(p))
<1>1. pool \subseteq Library /\ IsFiniteSet(pool)
  BY ThemePool
<1>2. Cardinality(pool) >= 2
  BY <1>1, Several
<1>3. PICK p \in pool, q \in pool : pq = <<p, q>> /\ (p = q => Fitting(pool) = {p})
  BY <1>1, TwoFromPool
<1>4. p = q => Starved(p)
  BY <1>2, <1>3 DEF Starved
<1> QED BY <1>1, <1>3, <1>4

LEMMA LibraryGives ==
    ASSUME NEW pq \in LibraryPairs
    PROVE  \E p \in Library, q \in Library : pq = <<p, q>> /\ (p = q => Starved(p))
<1>1. PICK own : own = OfTheme({theme} \ {"generic"})
  OBVIOUS
<1>2. PICK weak : weak = OfTheme(want.weak)
  OBVIOUS
<1>3. PICK gen : gen = Generic /\ gen = OfTheme({"generic"})
  BY DEF Generic
<1>4. own \subseteq Library /\ weak \subseteq Library /\ gen \subseteq Library
      /\ IsFiniteSet(own) /\ IsFiniteSet(weak) /\ IsFiniteSet(gen)
  BY <1>1, <1>2, <1>3, ThemePool
<1>5. OfTheme({theme} \union want.weak \union {"generic"}) = OfTheme({theme}) \union weak \union gen
  <2>1. OfTheme({theme} \union want.weak \union {"generic"})
        = OfTheme({theme} \union want.weak) \union OfTheme({"generic"})
    BY ThemesAdd
  <2>2. OfTheme({theme} \union want.weak) = OfTheme({theme}) \union OfTheme(want.weak)
    BY ThemesAdd
  <2> QED BY <1>2, <1>3, <2>1, <2>2
<1>6. OfTheme({theme}) = own \/ (own = {} /\ OfTheme({theme}) = gen)
  <2>1. CASE theme = "generic"
    <3>1. own = {}
      BY <1>1, <2>1 DEF OfTheme
    <3> QED BY <1>3, <2>1, <3>1
  <2>2. CASE theme # "generic"
    <3>1. {theme} \ {"generic"} = {theme}
      BY <2>2
    <3> QED BY <1>1, <3>1
  <2> QED BY <2>1, <2>2
<1>7. LibraryPairs = IF own # {} THEN Led(own, <<weak, gen>>)
                     ELSE IF weak # {} THEN Led(weak, <<gen>>)
                     ELSE TwoFrom(gen)
  BY <1>1, <1>2, <1>3 DEF LibraryPairs
<1>8. CASE own # {}
  <2>1. pq \in Led(own, <<weak, gen>>)
    BY <1>7, <1>8
  <2>2. CASE Cardinality(own) = 1
    <3>1. PICK p \in own : own = {p}
      BY <1>4, <2>2, OneElement
    <3>2. pq \in Backfilled(p, <<weak, gen>>)
      BY <2>1, <2>2, <3>1 DEF Led
    <3>3. PICK pools : pools = <<weak, gen>>
      OBVIOUS
    <3>4. DOMAIN pools = 1..2 /\ pools[1] = weak /\ pools[2] = gen
      BY <3>3
    <3>5. \/ pq = <<p, p>> /\ \A i \in 1..2 : pools[i] \subseteq {p}
          \/ \E i \in 1..2 : \E q \in pools[i] : q # p /\ pq = <<p, q>>
      <4>1. pq \in Backfilled(p, pools)
        BY <3>2, <3>3
      <4>2. PICK n \in Nat : n = 2
        OBVIOUS
      <4>3. DOMAIN pools = 1..n
        BY <3>4, <4>2
      <4>4. \/ pq = <<p, p>> /\ \A i \in 1..n : pools[i] \subseteq {p}
            \/ \E i \in 1..n : \E q \in pools[i] : q # p /\ pq = <<p, q>>
        BY <4>1, <4>3, BackfilledPool
      <4> QED BY <4>2, <4>4
    <3>6. CASE pq = <<p, p>> /\ \A i \in 1..2 : pools[i] \subseteq {p}
      <4>1. weak \subseteq {p} /\ gen \subseteq {p}
        BY <3>4, <3>6
      <4>2. OfTheme({theme} \union want.weak \union {"generic"}) = {p}
        BY <1>5, <1>6, <1>8, <3>1, <4>1
      <4>3. Starved(p)
        BY <4>2 DEF Starved
      <4> QED BY <1>4, <3>6, <4>3
    <3>7. CASE \E i \in 1..2 : \E q \in pools[i] : q # p /\ pq = <<p, q>>
      <4>1. PICK i \in 1..2 : \E q \in pools[i] : q # p /\ pq = <<p, q>>
        BY <3>7
      <4>2. PICK q \in pools[i] : q # p /\ pq = <<p, q>>
        BY <4>1
      <4>3. pools[i] \subseteq Library
        BY <1>4, <3>4
      <4> QED BY <1>4, <4>2, <4>3
    <3> QED BY <3>5, <3>6, <3>7
  <2>3. CASE Cardinality(own) # 1
    <3>1. pq \in TwoFrom(own)
      BY <2>1, <2>3 DEF Led
    <3>2. own = OfTheme({theme})
      BY <1>6, <1>8
    <3> QED BY <1>8, <2>3, <3>1, <3>2, FromSeveral
  <2> QED BY <2>2, <2>3
<1>9. CASE own = {} /\ weak # {}
  <2>1. pq \in Led(weak, <<gen>>)
    BY <1>7, <1>9
  <2>2. CASE Cardinality(weak) = 1
    <3>1. PICK p \in weak : weak = {p}
      BY <1>4, <2>2, OneElement
    <3>2. pq \in Backfilled(p, <<gen>>)
      BY <2>1, <2>2, <3>1 DEF Led
    <3>3. PICK pools : pools = <<gen>>
      OBVIOUS
    <3>4. DOMAIN pools = 1..1 /\ pools[1] = gen
      BY <3>3
    <3>5. \/ pq = <<p, p>> /\ \A i \in 1..1 : pools[i] \subseteq {p}
          \/ \E i \in 1..1 : \E q \in pools[i] : q # p /\ pq = <<p, q>>
      <4>1. pq \in Backfilled(p, pools)
        BY <3>2, <3>3
      <4>2. PICK n \in Nat : n = 1
        OBVIOUS
      <4>3. DOMAIN pools = 1..n
        BY <3>4, <4>2
      <4>4. \/ pq = <<p, p>> /\ \A i \in 1..n : pools[i] \subseteq {p}
            \/ \E i \in 1..n : \E q \in pools[i] : q # p /\ pq = <<p, q>>
        BY <4>1, <4>3, BackfilledPool
      <4> QED BY <4>2, <4>4
    <3>6. CASE pq = <<p, p>> /\ \A i \in 1..1 : pools[i] \subseteq {p}
      <4>1. gen \subseteq {p}
        BY <3>4, <3>6
      <4>2. OfTheme({theme} \union want.weak \union {"generic"}) = {p}
        BY <1>5, <1>6, <1>9, <3>1, <4>1
      <4>3. Starved(p)
        BY <4>2 DEF Starved
      <4> QED BY <1>4, <3>6, <4>3
    <3>7. CASE \E i \in 1..1 : \E q \in pools[i] : q # p /\ pq = <<p, q>>
      <4>1. PICK i \in 1..1 : \E q \in pools[i] : q # p /\ pq = <<p, q>>
        BY <3>7
      <4>2. PICK q \in pools[i] : q # p /\ pq = <<p, q>>
        BY <4>1
      <4>3. pools[i] \subseteq Library
        BY <1>4, <3>4
      <4> QED BY <1>4, <4>2, <4>3
    <3> QED BY <3>5, <3>6, <3>7
  <2>3. CASE Cardinality(weak) # 1
    <3>1. pq \in TwoFrom(weak)
      BY <2>1, <2>3 DEF Led
    <3> QED BY <1>2, <1>9, <2>3, <3>1, FromSeveral
  <2> QED BY <2>2, <2>3
<1>10. CASE own = {} /\ weak = {}
  <2>1. pq \in TwoFrom(gen)
    BY <1>7, <1>10
  <2>2. CASE Cardinality(gen) = 1
    <3>1. PICK p \in gen, q \in gen : pq = <<p, q>>
      BY <1>4, <2>1, TwoFromPool
    <3>2. gen = {p}
      BY <1>4, <2>2, <3>1, OneElement
    <3>3. OfTheme({theme} \union want.weak \union {"generic"}) = {p}
      BY <1>5, <1>6, <1>10, <3>2
    <3>4. Starved(p)
      BY <3>3 DEF Starved
    <3> QED BY <1>4, <3>1, <3>4
  <2>3. CASE Cardinality(gen) # 1
    <3>1. gen # {}
      BY <1>4, <2>1, TwoFromPool
    <3> QED BY <1>3, <2>1, <2>3, <3>1, FromSeveral
  <2> QED BY <2>2, <2>3
<1> QED BY <1>8, <1>9, <1>10

\* The bands asked for.
LEMMA FiveRemainder ==
    ASSUME NEW n \in Nat
    PROVE  n % 5 \in 0..4 /\ n % 5 <= n /\ (n < 5 => n % 5 = n)
OBVIOUS

LEMMA BandOrder ==
    ASSUME NEW k \in 1..3
    PROVE  /\ Own(k) \in 2..4
           /\ \A i \in 1..5 : DifficultyOrder(k)[i] \in 1..5
           /\ \A i \in 1..5 : DifficultyOrder(k)[i] =
                                IF i + Own(k) - 1 <= 5 THEN i + Own(k) - 1 ELSE 6 - i
<1>1. Own(k) \in 2..4
  BY DEF Own
<1>2. \A i \in 1..5 : DifficultyOrder(k)[i] =
                       IF i + Own(k) - 1 <= 5 THEN i + Own(k) - 1 ELSE 6 - i
  BY DEF DifficultyOrder
<1>3. PICK o \in 2..4 : o = Own(k)
  BY <1>1
<1>4. \A i \in 1..5 : (IF i + o - 1 <= 5 THEN i + o - 1 ELSE 6 - i) \in 1..5
  OBVIOUS
<1> QED BY <1>1, <1>2, <1>3, <1>4

LEMMA AskedInOrder ==
    ASSUME NEW s \in Seq(1..5), NEW k \in 1..3, InOrder(s, k),
           NEW t, t = Append(s, DifficultyOrder(k)[(Len(s) % 5) + 1])
    PROVE  t \in Seq(1..5) /\ InOrder(t, k) /\ Len(t) = Len(s) + 1
<1>1. PICK n \in Nat : n = Len(s) /\ DOMAIN s = 1..n
  BY LenProperties
<1>2. PICK d \in 1..5 : d = DifficultyOrder(k)[(n % 5) + 1]
  <2>1. (n % 5) + 1 \in 1..5
    BY FiveRemainder
  <2> QED BY <2>1, BandOrder
<1>3. t = Append(s, d)
  BY <1>1, <1>2
<1>4. t \in Seq(1..5) /\ Len(t) = n + 1 /\ t[n + 1] = d /\ \A i \in 1..n : t[i] = s[i]
  BY <1>1, <1>3, AppendProperties
<1>5. DOMAIN t = 1..(n + 1)
  BY <1>4, LenProperties
<1>6. ASSUME NEW i \in DOMAIN t PROVE t[i] = DifficultyOrder(k)[((i - 1) % 5) + 1]
  <2>1. CASE i = n + 1
    <3>1. i - 1 = n
      BY <2>1
    <3> QED BY <1>2, <1>4, <2>1, <3>1
  <2>2. CASE i # n + 1
    <3>1. i \in 1..n
      BY <1>5, <2>2
    <3> QED BY <1>1, <1>4, <3>1 DEF InOrder
  <2> QED BY <2>1, <2>2
<1> QED BY <1>1, <1>4, <1>6 DEF InOrder

LEMMA HarderFirst ==
    ASSUME NEW s \in Seq(1..5), NEW k \in 1..3, InOrder(s, k),
           NEW i \in DOMAIN s, s[i] < Own(k), NEW b \in Own(k)..5
    PROVE  \E j \in 1..(i - 1) : s[j] = b
<1>1. PICK n \in Nat : n = Len(s) /\ DOMAIN s = 1..n
  BY LenProperties
<1>2. PICK o \in 2..4 : o = Own(k)
  BY BandOrder
<1>3. i \in 1..n /\ i - 1 \in Nat
  BY <1>1
<1>4. PICK r \in 0..4 : r = (i - 1) % 5 /\ r <= i - 1
  <2>1. PICK m \in Nat : m = i - 1
    BY <1>3
  <2> QED BY <2>1, FiveRemainder
<1>5. s[i] = DifficultyOrder(k)[r + 1]
  BY <1>4 DEF InOrder
<1>6. r + 1 \in 1..5
  OBVIOUS
<1>7. s[i] = IF (r + 1) + o - 1 <= 5 THEN (r + 1) + o - 1 ELSE 6 - (r + 1)
  BY <1>2, <1>5, <1>6, BandOrder
<1>8. ~((r + 1) + o - 1 <= 5)
  <2>1. CASE (r + 1) + o - 1 <= 5
    <3>1. s[i] = (r + 1) + o - 1 /\ s[i] < o
      BY <1>2, <1>7, <2>1
    <3>2. (r + 1) + o - 1 < o /\ r \in 0..4 /\ o \in 2..4
      BY <3>1
    <3> QED BY ONLY <3>2
  <2> QED BY <2>1
<1>9. PICK q \in 1..5 : q = b - o + 1 /\ q + o - 1 = b /\ q <= 5 /\ q <= r
  <2>1. b \in o..5
    BY <1>2
  <2> QED BY <1>8, <2>1
<1>10. q \in 1..n /\ q \in 1..(i - 1) /\ q - 1 \in Nat /\ q - 1 < 5
  <2>1. q \in Nat /\ r \in Nat /\ i \in Nat /\ q >= 1 /\ i <= n /\ q <= r /\ r <= i - 1
    <3>1. i \in Nat /\ i <= n
      BY <1>3
    <3>2. r \in Nat /\ r <= i - 1
      BY <1>4
    <3>3. q \in Nat /\ q >= 1 /\ q <= r
      BY <1>9
    <3> QED BY <3>1, <3>2, <3>3
  <2>2. q <= i - 1 /\ q <= n /\ q - 1 \in Nat
    BY ONLY <2>1, n \in Nat
  <2> QED BY <1>9, <2>1, <2>2
<1>11. (q - 1) % 5 = q - 1
  <2>1. PICK m \in Nat : m = q - 1
    BY <1>10
  <2> QED BY <1>10, <2>1, FiveRemainder
<1>12. s[q] = DifficultyOrder(k)[q]
  <2>1. s[q] = DifficultyOrder(k)[((q - 1) % 5) + 1]
    BY <1>1, <1>10 DEF InOrder
  <2>2. ((q - 1) % 5) + 1 = q
    BY <1>11
  <2> QED BY <2>1, <2>2
<1>13. DifficultyOrder(k)[q] = b
  <2>1. DifficultyOrder(k)[q] = IF q + o - 1 <= 5 THEN q + o - 1 ELSE 6 - q
    BY <1>2, BandOrder
  <2>2. b <= 5 /\ q + o - 1 <= 5
    BY <1>2, <1>9
  <2> QED BY <1>9, <2>1, <2>2
<1> QED BY <1>10, <1>12, <1>13

LEMMA PracticeStarts == PracticeInit => PracticeInv
<1> SUFFICES ASSUME PracticeInit PROVE PracticeInv
  OBVIOUS
<1>1. want \in Wants
  BY DEF PracticeInit, Wants
<1>2. asked \in Seq(1..5) /\ Len(asked) = 0 /\ DOMAIN asked = {}
  BY EmptySeq DEF PracticeInit
<1>3. InOrder(asked, want.skill) /\ Len(asked) <= FetchBudget
  BY <1>2, PracticeAssumption DEF InOrder
<1>4. MatchedFits(matched)
  BY EmptySeq DEF PracticeInit, MatchedFits
<1> QED BY <1>1, <1>2, <1>3, <1>4 DEF PracticeInit, PracticeInv

\* What the selectors give depends on the plan alone.
LEMMA SamePairs ==
    ASSUME UNCHANGED <<want, theme>>
    PROVE  LibraryPairs' = LibraryPairs
BY DEF LibraryPairs, Led, TwoFrom, Backfilled, Fitting, Generic, OfTheme

LEMMA OrderKept ==
    ASSUME InOrder(asked, want.skill), UNCHANGED <<want, asked>>
    PROVE  InOrder(asked, want.skill)'
BY DEF InOrder, DifficultyOrder, Own

LEMMA FitsKept ==
    ASSUME MatchedFits(matched), UNCHANGED matched
    PROVE  MatchedFits(matched)'
BY DEF MatchedFits

LEMMA MatchedGrows ==
    ASSUME NEW s, MatchedFits(s), NEW p \in Upstream, p.mine, p \notin {s[i] : i \in DOMAIN s}
    PROVE  MatchedFits(Append(s, p))
<1>1. PICK n \in Nat : n = Len(s) /\ DOMAIN s = 1..n
  BY LenProperties DEF MatchedFits
<1>2. PICK t : t = Append(s, p)
  OBVIOUS
<1>3. t \in Seq(Upstream) /\ Len(t) = n + 1 /\ t[n + 1] = p /\ \A i \in 1..n : t[i] = s[i]
  BY <1>1, <1>2, AppendProperties DEF MatchedFits
<1>4. DOMAIN t = 1..(n + 1)
  BY <1>3, LenProperties
<1>5. \A i \in 1..(n + 1) : i = n + 1 \/ i \in 1..n
  OBVIOUS
<1>6. \A i \in DOMAIN t : t[i].mine
  BY <1>1, <1>3, <1>4, <1>5 DEF MatchedFits
<1>7. \A i \in 1..n : t[i] # p
  BY <1>1, <1>3
<1>8. \A i, j \in DOMAIN t : t[i] = t[j] => i = j
  BY <1>1, <1>3, <1>4, <1>5, <1>7 DEF MatchedFits
<1> QED BY <1>2, <1>3, <1>6, <1>8 DEF MatchedFits

LEMMA PracticeStep == PracticeInv /\ [PracticeNext]_practiceVars => PracticeInv'
<1> SUFFICES ASSUME PracticeInv, [PracticeNext]_practiceVars PROVE PracticeInv'
  OBVIOUS
<1>1. CASE Anchor
  <2>1. PICK sk \in SkillLevels, w \in SUBSET Named : want' = [skill |-> sk, weak |-> w]
    BY <1>1 DEF Anchor
  <2>2. want' \in Wants
    BY <2>1, PracticeAssumption DEF Wants
  <2>3. asked = <<>> /\ UNCHANGED asked
    BY <1>1 DEF Anchor, PracticeInv
  <2>4. InOrder(asked, want.skill)'
    BY <2>3, EmptySeq DEF InOrder
  <2>5. MatchedFits(matched)'
    BY <1>1 DEF Anchor, PracticeInv, MatchedFits
  <2>6. stage = "new" /\ stage' = "verdict" /\ week = <<>> /\ week' = <<>>
        /\ UNCHANGED <<theme, asked, tried, matched>>
    BY <1>1 DEF Anchor, PracticeInv
  <2> QED BY <2>2, <2>4, <2>5, <2>6 DEF PracticeInv
<1>2. CASE Classify
  <2>1. stage = "verdict" /\ UNCHANGED <<want, asked, matched, week>>
        /\ tried \in 0..1 /\ tried' = tried + 1 /\ stage' \in {"verdict", "hunt"}
        /\ (stage' = "verdict" => tried = 0) /\ theme' \in Named \union {"generic"}
    BY <1>2 DEF Classify, PracticeInv
  <2>2. tried' \in 0..2 /\ (stage' = "verdict" => tried' \in 0..1)
    BY <2>1
  <2>3. InOrder(asked, want.skill)' /\ MatchedFits(matched)'
    BY <2>1, OrderKept, FitsKept DEF PracticeInv
  <2>4. week = <<>> /\ week' = <<>>
    BY <2>1 DEF PracticeInv
  <2> QED BY <2>1, <2>2, <2>3, <2>4 DEF PracticeInv
<1>3. CASE Fetch
  <2>1. stage = "hunt" /\ UNCHANGED <<want, theme, tried, week>> /\ stage' \in {"hunt", "pick"}
        /\ Len(asked) < FetchBudget
        /\ asked' = Append(asked, DifficultyOrder(want.skill)[(Len(asked) % 5) + 1])
    BY <1>3 DEF Fetch, Hunting, AskBand
  <2>2. PICK k \in 1..3 : k = want.skill
    BY DEF PracticeInv, Wants
  <2>3. asked \in Seq(1..5) /\ InOrder(asked, k) /\ Len(asked) \in Nat
    BY <2>2, LenProperties DEF PracticeInv
  <2>4. asked' \in Seq(1..5) /\ InOrder(asked', k) /\ Len(asked') = Len(asked) + 1
    BY <2>1, <2>2, <2>3, AskedInOrder
  <2>5. Len(asked') <= FetchBudget
    BY <2>1, <2>3, <2>4, PracticeAssumption
  <2>6. InOrder(asked, want.skill)'
    BY <2>1, <2>2, <2>4 DEF InOrder, DifficultyOrder, Own
  <2>7. MatchedFits(matched')
    <3>1. CASE UNCHANGED matched
      BY <3>1 DEF PracticeInv
    <3>2. CASE \E p \in Upstream : matched' = IF Kept(p) THEN Append(matched, p) ELSE matched
      <4>1. PICK p \in Upstream : matched' = IF Kept(p) THEN Append(matched, p) ELSE matched
        BY <3>2
      <4>2. CASE Kept(p)
        <5>1. matched' = Append(matched, p) /\ p.mine /\ p \notin {matched[i] : i \in DOMAIN matched}
          BY <4>1, <4>2 DEF Kept
        <5> QED BY <5>1, MatchedGrows DEF PracticeInv
      <4>3. CASE ~Kept(p)
        BY <4>1, <4>3 DEF PracticeInv
      <4> QED BY <4>2, <4>3
    <3> QED BY <1>3, <3>1, <3>2 DEF Fetch
  <2>8. week = <<>> /\ week' = <<>>
    BY <2>1 DEF PracticeInv
  <2> QED BY <2>1, <2>4, <2>5, <2>6, <2>7, <2>8 DEF PracticeInv, MatchedFits
<1>4. CASE HuntOver
  <2>1. stage = "hunt" /\ stage' = "pick" /\ UNCHANGED <<want, theme, asked, tried, matched, week>>
    BY <1>4 DEF HuntOver
  <2>2. InOrder(asked, want.skill)' /\ MatchedFits(matched)'
    BY <2>1, OrderKept, FitsKept DEF PracticeInv
  <2>3. week = <<>> /\ week' = <<>>
    BY <2>1 DEF PracticeInv
  <2> QED BY <2>1, <2>2, <2>3 DEF PracticeInv
<1>5. CASE Pick
  <2>1. stage = "pick" /\ stage' = "done" /\ UNCHANGED <<want, theme, asked, tried, matched>>
    BY <1>5 DEF Pick
  <2>2. InOrder(asked, want.skill)' /\ MatchedFits(matched)'
    BY <2>1, OrderKept, FitsKept DEF PracticeInv
  <2>3. \/ week' = <<>> \/ week' \in LibraryPairs
        \/ Len(matched) >= 2 /\ week' = FirstTwo(matched)
    BY <1>5 DEF Pick
  <2>4. LibraryPairs' = LibraryPairs
    BY <2>1, SamePairs
  <2>5. FirstTwo(matched)' = FirstTwo(matched)
    BY <2>1 DEF FirstTwo, Nth, Place, Ahead
  <2> QED BY <2>1, <2>2, <2>3, <2>4, <2>5 DEF PracticeInv
<1>6. CASE UNCHANGED practiceVars
  <2>1. UNCHANGED <<want, stage, theme, asked, tried, matched, week>>
    BY <1>6 DEF practiceVars
  <2>2. InOrder(asked, want.skill)' /\ MatchedFits(matched)'
    BY <2>1, OrderKept, FitsKept DEF PracticeInv
  <2>3. LibraryPairs' = LibraryPairs
    BY <2>1, SamePairs
  <2>4. FirstTwo(matched)' = FirstTwo(matched)
    BY <2>1 DEF FirstTwo, Nth, Place, Ahead
  <2> QED BY <2>1, <2>2, <2>3, <2>4 DEF PracticeInv
<1> QED BY <1>1, <1>2, <1>3, <1>4, <1>5, <1>6 DEF PracticeNext, PracticeWork

\* lichess_puzzles.fetch_side_matched_variants and library.pick_two_puzzles_theme_first:
\* the bands are asked for in the order of the list, what is kept is the
\* player's own side, each puzzle once, and the week's pair is the first two
\* kept or a pair of the library, for any library and any answers of Lichess.
THEOREM PracticeInvariance == PracticeSpec => []PracticeInv
<1>1. PracticeInit => PracticeInv
  BY PracticeStarts
<1>2. PracticeInv /\ [PracticeNext]_practiceVars => PracticeInv'
  BY PracticeStep
<1> QED BY <1>1, <1>2, PTL DEF PracticeSpec

LEMMA PracticeFits == PracticeInv => PracticeSafe
<1> SUFFICES ASSUME PracticeInv PROVE PracticeSafe
  OBVIOUS
<1>1. MatchedFits(matched) /\ want.skill \in 1..3 /\ asked \in Seq(1..5)
  BY DEF PracticeInv, Wants
<1>2. week # <<>> => \/ Len(matched) >= 2 /\ week = FirstTwo(matched)
                     \/ \E p \in Library, q \in Library : week = <<p, q>> /\ (p = q => Starved(p))
  BY LibraryGives DEF PracticeInv
<1>3. PracticeTypeOK
  <2>1. \A i \in DOMAIN matched : matched[i] \in Upstream
    <3>1. DOMAIN matched = 1..Len(matched)
      BY <1>1, LenProperties DEF MatchedFits
    <3> QED BY <1>1, <3>1, ElementOfSeq DEF MatchedFits
  <2>2. week = <<>> \/ Len(week) = 2
    BY <1>1, <1>2, FirstTwoFits
  <2> QED BY <2>1, <2>2 DEF PracticeTypeOK, PracticeInv
<1>4. WeekRampsUp
  <2> SUFFICES ASSUME Fetched
      PROVE  /\ week[2] \in Upstream /\ week[1] # week[2]
             /\ week[1].mine /\ week[2].mine
             /\ week[1].rating <= week[2].rating
             /\ Cardinality(ManyMoves(matched)) >= 2 => week[1].multi /\ week[2].multi
    BY DEF WeekRampsUp
  <2>1. week # <<>> /\ week[1] \in Upstream /\ week[1] \notin Library
    BY PracticeAssumption DEF Fetched
  <2>2. Len(matched) >= 2 /\ week = FirstTwo(matched)
    BY <1>2, <2>1
  <2> QED BY <1>1, <2>2, FirstTwoFits
<1>5. HarderBeforeEasier
  <2>1. PICK k \in 1..3 : k = want.skill
    BY <1>1
  <2>2. InOrder(asked, k)
    BY <2>1 DEF PracticeInv
  <2> QED BY <1>1, <2>1, <2>2, HarderFirst DEF HarderBeforeEasier
<1>6. RepeatsOnlyWhenStarved
  <2> SUFFICES ASSUME week # <<>>, week[1] = week[2] PROVE Starved(week[1])
    BY DEF RepeatsOnlyWhenStarved, Starved
  <2>1. CASE Len(matched) >= 2 /\ week = FirstTwo(matched)
    BY <1>1, <2>1, FirstTwoFits
  <2>2. CASE \E p \in Library, q \in Library : week = <<p, q>> /\ (p = q => Starved(p))
    BY <2>2
  <2> QED BY <1>2, <2>1, <2>2
<1> QED BY <1>3, <1>4, <1>5, <1>6 DEF PracticeSafe

\* The week's puzzles fit the player as well as the sources allow: a fetched pair
\* is two puzzles of the own side that get harder, no easier band is tried
\* before the harder ones, and a day repeats only when nothing else was left.
THEOREM PracticeIsSafe == PracticeSpec => []PracticeSafe
BY PracticeInvariance, PracticeFits, PTL

-----------------------------------------------------------------------------
(* The notification feed (NotificationFeed) *)

Targets == [id : 0..MaxRows, games : SUBSET FeedCallers]
Producers == [at : {"idle", "announcing", "alerting", "done"}, target : Targets]

\* Each row is one that was made, by a call that is over.
RowsFit ==
    /\ \A i, j \in DOMAIN feed : feed[i].id = feed[j].id => i = j
    /\ \A i \in DOMAIN feed : feed[i].id <= rowsMade
    /\ rowsMade <= Cardinality({c \in FeedCallers : feedCaller[c].at = "done"})
    /\ \A c \in analyzed : feedCaller[c].at = "done"

\* No games are in two rows.
CountsFit ==
    /\ \A i, j \in DOMAIN feed : i # j => feed[i].games \intersect feed[j].games = {}
    /\ \A i \in DOMAIN feed : feed[i].games \subseteq analyzed

\* What a producer has read belongs to the row it has read it in.
TargetFits(c) ==
    LET it == feedCaller[c].target
    IN  /\ it.games \subseteq analyzed
        /\ it.id = 0 => it.games = {}
        /\ it.id # 0 => \E i \in DOMAIN feed : feed[i].id = it.id
        /\ \A i \in DOMAIN feed : feed[i].id # it.id => feed[i].games \intersect it.games = {}
        /\ \A d \in FeedCallers : feedCaller[d].target.id # it.id =>
              feedCaller[d].target.games \intersect it.games = {}

\* While nothing falls between a look and a write, what the look has seen holds.
AsSeen(c) ==
    /\ feedCaller[c].at = "announcing" =>
          \A i \in DOMAIN feed : feed[i].id = feedCaller[c].target.id =>
              feed[i].games = feedCaller[c].target.games /\ ~feed[i].read
    /\ feedCaller[c].at = "alerting" => Alerts = {}
Undisturbed ==
    ~overlap => /\ \A c, d \in InCall : c = d
                /\ analyzed \subseteq Announced
                /\ \A i, j \in Alerts : i = j
                /\ \A c \in FeedCallers : AsSeen(c)

FeedInv ==
    /\ FeedTypeOK /\ RowsFit /\ CountsFit
    /\ \A c \in FeedCallers : TargetFits(c)
    /\ Undisturbed

\* The latest of some rows is one of them.
LEMMA LatestOf == ASSUME NEW n \in Nat, NEW S \in SUBSET (1..n), S # {} PROVE Max(S) \in S
<1>1. PICK T \in SUBSET Nat : T = {n - i : i \in S} /\ T # {}
  <2>1. \A i \in S : n - i \in Nat
    <3>1. ASSUME NEW i \in S PROVE n - i \in Nat
      <4>1. i \in 1..n
        OBVIOUS
      <4> QED BY <4>1
    <3> QED BY <3>1
  <2>2. {n - i : i \in S} \in SUBSET Nat
    BY <2>1
  <2>3. PICK i \in S : TRUE
    OBVIOUS
  <2>4. n - i \in {n - j : j \in S}
    BY <2>3
  <2> QED BY <2>2, <2>4
<1>2. PICK m \in T : \A k \in T : m <= k
  BY <1>1, LeastOf
<1>3. PICK x \in S : m = n - x
  BY <1>1, <1>2
<1>4. ASSUME NEW y \in S PROVE x >= y
  <2>1. n - x <= n - y
    BY <1>1, <1>2, <1>3
  <2>2. x \in Nat /\ y \in Nat
    OBVIOUS
  <2> QED BY ONLY <2>1, <2>2, n \in Nat
<1> QED BY <1>4 DEF Max

\* A row that moves to the end of a sequence: the later ones move up.
LEMMA MovedToEnd ==
    ASSUME NEW S, NEW s \in Seq(S), NEW k \in DOMAIN s, NEW x \in S
    PROVE  /\ Append(RemoveAt(s, k), x) \in Seq(S)
           /\ Len(Append(RemoveAt(s, k), x)) = Len(s)
           /\ \A i \in 1..Len(s) : Append(RemoveAt(s, k), x)[i] =
                 IF i < k THEN s[i] ELSE IF i < Len(s) THEN s[i + 1] ELSE x
<1>1. PICK n \in Nat : n = Len(s) /\ k \in 1..n
  BY LenProperties
<1>2. \A i \in 1..n : s[i] \in S
  BY <1>1, ElementOfSeq
<1>3. PICK a \in Seq(S) : a = SubSeq(s, 1, k - 1) /\ Len(a) = k - 1 /\ \A i \in 1..(k - 1) : a[i] = s[i]
  <2>1. \A i \in 1..(k - 1) : s[i] \in S
    BY <1>1, <1>2
  <2>2. /\ SubSeq(s, 1, k - 1) \in Seq(S)
        /\ Len(SubSeq(s, 1, k - 1)) = IF 1 <= k - 1 THEN (k - 1) - 1 + 1 ELSE 0
        /\ \A i \in 1..((k - 1) - 1 + 1) : SubSeq(s, 1, k - 1)[i] = s[1 + i - 1]
    <3>1. 1 \in Int /\ k - 1 \in Int
      BY <1>1
    <3> QED BY ONLY <2>1, <3>1, SubSeqProperties
  <2>3. Len(SubSeq(s, 1, k - 1)) = k - 1
    BY <1>1, <2>2
  <2>4. \A i \in 1..(k - 1) : SubSeq(s, 1, k - 1)[i] = s[i]
    BY <1>1, <2>2
  <2> QED BY <2>2, <2>3, <2>4
<1>4. PICK b \in Seq(S) : b = SubSeq(s, k + 1, n) /\ Len(b) = n - k /\ \A i \in 1..(n - k) : b[i] = s[k + i]
  <2>1. \A i \in (k + 1)..n : s[i] \in S
    BY <1>1, <1>2
  <2>2. /\ SubSeq(s, k + 1, n) \in Seq(S)
        /\ Len(SubSeq(s, k + 1, n)) = IF k + 1 <= n THEN n - (k + 1) + 1 ELSE 0
        /\ \A i \in 1..(n - (k + 1) + 1) : SubSeq(s, k + 1, n)[i] = s[(k + 1) + i - 1]
    <3>1. k + 1 \in Int /\ n \in Int
      BY <1>1
    <3> QED BY ONLY <2>1, <3>1, SubSeqProperties
  <2>3. Len(SubSeq(s, k + 1, n)) = n - k
    <3>1. CASE k + 1 <= n
      <4>1. n - (k + 1) + 1 = n - k
        BY <1>1
      <4> QED BY <2>2, <3>1, <4>1
    <3>2. CASE ~(k + 1 <= n)
      <4>1. n - k = 0
        BY <1>1, <3>2
      <4> QED BY <2>2, <3>2, <4>1
    <3> QED BY <3>1, <3>2
  <2>4. ASSUME NEW i \in 1..(n - k) PROVE SubSeq(s, k + 1, n)[i] = s[k + i]
    <3>1. i \in 1..(n - (k + 1) + 1) /\ (k + 1) + i - 1 = k + i
      BY <1>1
    <3> QED BY <2>2, <3>1
  <2> QED BY <2>2, <2>3, <2>4
<1>5. PICK c \in Seq(S) : c = RemoveAt(s, k) /\ c = a \o b
  BY <1>1, <1>3, <1>4, ConcatProperties DEF RemoveAt
<1>6. /\ Len(c) = Len(a) + Len(b)
      /\ \A i \in 1..(Len(a) + Len(b)) : c[i] = IF i <= Len(a) THEN a[i] ELSE b[i - Len(a)]
  BY <1>5, ConcatProperties
<1>7. Len(c) = n - 1 /\ Len(a) + Len(b) = n - 1
  <2>1. Len(c) = (k - 1) + (n - k) /\ Len(a) + Len(b) = (k - 1) + (n - k)
    BY <1>3, <1>4, <1>6
  <2>2. (k - 1) + (n - k) = n - 1
    <3>1. n \in Nat /\ k \in Nat
      BY <1>1
    <3> QED BY ONLY <3>1
  <2> QED BY <2>1, <2>2
<1>8. \A i \in 1..(n - 1) : c[i] = IF i < k THEN s[i] ELSE s[i + 1]
  <2>1. ASSUME NEW i \in 1..(n - 1) PROVE c[i] = IF i < k THEN s[i] ELSE s[i + 1]
    <3>1. c[i] = IF i <= k - 1 THEN a[i] ELSE b[i - (k - 1)]
      BY <1>3, <1>6, <1>7
    <3>2. CASE i < k
      <4>1. i \in 1..(k - 1) /\ i <= k - 1
        BY <1>1, <3>2
      <4> QED BY <1>3, <3>1, <3>2, <4>1
    <3>3. CASE ~(i < k)
      <4>1. PICK j \in 1..(n - k) : j = i - (k - 1) /\ k + j = i + 1
        <5>1. i - (k - 1) \in 1..(n - k) /\ k + (i - (k - 1)) = i + 1
          BY <1>1, <3>3
        <5> QED BY <5>1
      <4>2. ~(i <= k - 1)
        BY <1>1, <3>3
      <4>3. c[i] = b[j]
        BY <3>1, <4>1, <4>2
      <4> QED BY <1>4, <3>3, <4>1, <4>3
    <3> QED BY <3>2, <3>3
  <2> QED BY <2>1
<1>9. PICK t : t = Append(c, x)
  OBVIOUS
<1>10. t \in Seq(S) /\ Len(t) = Len(c) + 1 /\ t[Len(c) + 1] = x /\ \A i \in 1..Len(c) : t[i] = c[i]
  BY <1>9, AppendProperties
<1>11. Len(t) = n /\ t[n] = x /\ \A i \in 1..(n - 1) : t[i] = c[i]
  BY <1>1, <1>7, <1>10
<1>12. ASSUME NEW i \in 1..n
       PROVE  t[i] = IF i < k THEN s[i] ELSE IF i < n THEN s[i + 1] ELSE x
  <2>1. CASE i = n
    BY <1>1, <1>11, <2>1
  <2>2. CASE i # n
    <3>1. i \in 1..(n - 1) /\ i < n
      BY <1>1, <2>2
    <3>2. t[i] = IF i < k THEN s[i] ELSE s[i + 1]
      BY <1>8, <1>11, <3>1
    <3> QED BY <3>1, <3>2
  <2> QED BY <2>1, <2>2
<1> QED BY <1>1, <1>5, <1>9, <1>10, <1>11, <1>12

\* A click, a resolution or the passing of time: the rows keep their places, ids and counts.
LEMMA EditKeeps ==
    ASSUME FeedInv, feed' \in Seq(Rows), Len(feed') = Len(feed),
           \A i \in DOMAIN feed : feed'[i].id = feed[i].id /\ feed'[i].games = feed[i].games
                                  /\ (LiveAlert(feed'[i]) => LiveAlert(feed[i])),
           UNCHANGED <<rowsMade, feedCaller, analyzed>>, overlap' \in BOOLEAN,
           ~overlap' => ~overlap /\ (InCall = {} \/ \A i \in DOMAIN feed : feed'[i].read = feed[i].read)
    PROVE  FeedInv'
<1>1. DOMAIN feed' = DOMAIN feed
  <2>1. feed \in Seq(Rows)
    BY DEF FeedInv, FeedTypeOK
  <2> QED BY <2>1, LenProperties
<1>2. FeedTypeOK'
  BY DEF FeedInv, FeedTypeOK
<1>3. RowsFit' /\ CountsFit'
  <2>1. RowsFit'
    BY <1>1 DEF FeedInv, RowsFit
  <2>2. CountsFit'
    BY <1>1 DEF FeedInv, CountsFit
  <2> QED BY <2>1, <2>2
<1>4. ASSUME NEW c \in FeedCallers PROVE TargetFits(c)'
  BY <1>1 DEF FeedInv, TargetFits
<1>5. Undisturbed'
  <2> SUFFICES ASSUME ~overlap'
      PROVE  /\ \A c, d \in InCall' : c = d
             /\ analyzed' \subseteq Announced'
             /\ \A i, j \in Alerts' : i = j
             /\ \A c \in FeedCallers : AsSeen(c)'
    BY DEF Undisturbed
  <2>1. InCall' = InCall
    BY DEF InCall
  <2>2. Announced' = Announced
    BY <1>1 DEF Announced
  <2>3. Alerts' \subseteq Alerts
    BY <1>1 DEF Alerts
  <2>4. /\ \A c, d \in InCall : c = d
        /\ analyzed \subseteq Announced
        /\ \A i, j \in Alerts : i = j
        /\ \A c \in FeedCallers : AsSeen(c)
    BY DEF FeedInv, Undisturbed
  <2>5. ASSUME NEW c \in FeedCallers PROVE AsSeen(c)'
    <3>1. CASE c \in InCall
      <4>1. \A i \in DOMAIN feed : feed'[i].read = feed[i].read
        BY <3>1
      <4> QED BY <1>1, <2>3, <2>4, <4>1 DEF AsSeen
    <3>2. CASE c \notin InCall
      BY <3>2 DEF InCall, AsSeen
    <3> QED BY <3>1, <3>2
  <2> QED BY <2>1, <2>2, <2>3, <2>4, <2>5
<1> QED BY <1>2, <1>3, <1>4, <1>5 DEF FeedInv

\* The rows of an update.
LEMMA RowsOf ==
    ASSUME FeedInv
    PROVE  /\ feed \in Seq(Rows) /\ DOMAIN feed = 1..Len(feed)
           /\ \A i \in DOMAIN feed : feed[i] \in Rows
<1>1. feed \in Seq(Rows)
  BY DEF FeedInv, FeedTypeOK
<1> QED BY <1>1, LenProperties, ElementOfSeq

LEMMA RowStamps ==
    ASSUME NEW r \in Rows
    PROVE  /\ Read(r) \in Rows /\ Read(r).id = r.id /\ Read(r).games = r.games
           /\ Read(r).type = r.type /\ Read(r).dismissed = r.dismissed
           /\ Dismissed(r) \in Rows /\ Dismissed(r).id = r.id /\ Dismissed(r).games = r.games
           /\ Dismissed(r).type = r.type /\ Dismissed(r).dismissed /\ Dismissed(r).read = r.read
BY DEF Rows, Read, Dismissed

\* A sequence given by its elements.
LEMMA RewrittenRows ==
    ASSUME NEW S, NEW s \in Seq(S), NEW t, t = [i \in DOMAIN s |-> t[i]], \A i \in DOMAIN s : t[i] \in S
    PROVE  t \in Seq(S) /\ Len(t) = Len(s)
<1>1. PICK n \in Nat : n = Len(s) /\ DOMAIN s = 1..n
  BY LenProperties
<1>2. t \in [1..n -> S]
  BY <1>1
<1> QED BY <1>1, <1>2, IsASeq, LenProperties

LEMMA MarkReadKeeps ==
    ASSUME FeedInv, NEW id, MarkRead(id)
    PROVE  FeedInv'
<1>1. feed' = [i \in DOMAIN feed |-> IF feed[i].id = id THEN Read(feed[i]) ELSE feed[i]]
  BY DEF MarkRead, UpdateRows
<1>2. \A i \in DOMAIN feed : /\ feed'[i] \in Rows /\ feed'[i].id = feed[i].id
                             /\ feed'[i].games = feed[i].games
                             /\ (LiveAlert(feed'[i]) => LiveAlert(feed[i]))
  BY <1>1, RowsOf, RowStamps DEF LiveAlert
<1>3. feed' \in Seq(Rows) /\ Len(feed') = Len(feed)
  BY <1>1, <1>2, RowsOf, RewrittenRows
<1> QED BY <1>2, <1>3, EditKeeps DEF MarkRead, Click, FeedInv, FeedTypeOK

LEMMA MarkAllReadKeeps ==
    ASSUME FeedInv, MarkAllRead
    PROVE  FeedInv'
<1>1. feed' = [i \in DOMAIN feed |-> IF Unread(feed[i]) THEN Read(feed[i]) ELSE feed[i]]
  BY DEF MarkAllRead, UpdateRows
<1>2. \A i \in DOMAIN feed : /\ feed'[i] \in Rows /\ feed'[i].id = feed[i].id
                             /\ feed'[i].games = feed[i].games
                             /\ (LiveAlert(feed'[i]) => LiveAlert(feed[i]))
  BY <1>1, RowsOf, RowStamps DEF LiveAlert
<1>3. feed' \in Seq(Rows) /\ Len(feed') = Len(feed)
  BY <1>1, <1>2, RowsOf, RewrittenRows
<1> QED BY <1>2, <1>3, EditKeeps DEF MarkAllRead, Click, FeedInv, FeedTypeOK

LEMMA DismissKeeps ==
    ASSUME FeedInv, NEW id, Dismiss(id)
    PROVE  FeedInv'
<1>1. feed' = [i \in DOMAIN feed |-> IF feed[i].id = id THEN Dismissed(feed[i]) ELSE feed[i]]
  BY DEF Dismiss, UpdateRows
<1>2. \A i \in DOMAIN feed : /\ feed'[i] \in Rows /\ feed'[i].id = feed[i].id
                             /\ feed'[i].games = feed[i].games
                             /\ (LiveAlert(feed'[i]) => LiveAlert(feed[i]))
  BY <1>1, RowsOf, RowStamps DEF LiveAlert
<1>3. feed' \in Seq(Rows) /\ Len(feed') = Len(feed)
  BY <1>1, <1>2, RowsOf, RewrittenRows
<1> QED BY <1>2, <1>3, EditKeeps DEF Dismiss, Click, FeedInv, FeedTypeOK

LEMMA ResolveKeeps ==
    ASSUME FeedInv, ResolveDisconnected
    PROVE  FeedInv'
<1>1. feed' = [i \in DOMAIN feed |-> IF LiveAlert(feed[i]) THEN Dismissed(feed[i]) ELSE feed[i]]
  BY DEF ResolveDisconnected, UpdateRows
<1>2. \A i \in DOMAIN feed : /\ feed'[i] \in Rows /\ feed'[i].id = feed[i].id
                             /\ feed'[i].games = feed[i].games
                             /\ (LiveAlert(feed'[i]) => LiveAlert(feed[i]))
  BY <1>1, RowsOf, RowStamps DEF LiveAlert
<1>3. feed' \in Seq(Rows) /\ Len(feed') = Len(feed)
  BY <1>1, <1>2, RowsOf, RewrittenRows
<1> QED BY <1>2, <1>3, EditKeeps DEF ResolveDisconnected, Click, FeedInv, FeedTypeOK

LEMMA AgeKeeps ==
    ASSUME FeedInv, NEW k, Age(k)
    PROVE  FeedInv'
<1>1. k \in DOMAIN feed
  BY DEF Age
<1>2. PICK older \in {"recent", "old"} : feed' = [feed EXCEPT ![k].age = older]
  BY DEF Age
<1>3. PICK r : r = [feed[k] EXCEPT !.age = older]
  OBVIOUS
<1>4. /\ r \in Rows /\ r.id = feed[k].id /\ r.games = feed[k].games /\ r.type = feed[k].type
      /\ r.dismissed = feed[k].dismissed /\ r.read = feed[k].read
  <2>1. PICK o \in Rows : o = feed[k]
    BY <1>1, RowsOf
  <2> QED BY <1>3, <2>1 DEF Rows, Ages
<1>5. feed' = [feed EXCEPT ![k] = r]
  BY <1>2, <1>3
<1>6. \A i \in DOMAIN feed : /\ feed'[i] \in Rows /\ feed'[i].id = feed[i].id
                             /\ feed'[i].games = feed[i].games
                             /\ (LiveAlert(feed'[i]) => LiveAlert(feed[i]))
                             /\ feed'[i].read = feed[i].read
  <2>1. \A i \in DOMAIN feed : feed'[i] = IF i = k THEN r ELSE feed[i]
    BY <1>1, <1>5, RowsOf
  <2> QED BY <1>4, <2>1, RowsOf DEF LiveAlert
<1>7. feed' \in Seq(Rows) /\ Len(feed') = Len(feed)
  <2>1. feed' = [i \in DOMAIN feed |-> feed'[i]]
    BY <1>1, <1>5, RowsOf
  <2>2. \A i \in DOMAIN feed : feed'[i] \in Rows
    BY <1>6
  <2>3. feed \in Seq(Rows)
    BY RowsOf
  <2> QED BY ONLY <2>1, <2>2, <2>3, RewrittenRows
<1> QED BY <1>6, <1>7, EditKeeps DEF Age, FeedInv, FeedTypeOK

\* What a producer reads is nothing, or the latest row it may merge into.
LEMMA TargetIsRow ==
    ASSUME FeedInv
    PROVE  \/ MergeTarget = NoTarget
           \/ \E k \in DOMAIN feed : /\ Mergeable(feed[k])
                                     /\ MergeTarget = [id |-> feed[k].id, games |-> feed[k].games]
<1>1. PICK S : S = {i \in DOMAIN feed : Mergeable(feed[i])}
  OBVIOUS
<1>2. CASE S = {}
  BY <1>1, <1>2 DEF MergeTarget
<1>3. CASE S # {}
  <2>1. PICK n \in Nat : n = Len(feed) /\ DOMAIN feed = 1..n
    BY RowsOf, LenProperties
  <2>2. Max(S) \in S
    BY <1>1, <1>3, <2>1, LatestOf
  <2> QED BY <1>1, <1>3, <2>2 DEF MergeTarget
<1> QED BY <1>2, <1>3

\* What a look changes: where its producer is, and what it has read.
LEMMA LookKeeps ==
    ASSUME FeedInv, NEW c \in FeedCallers, feedCaller[c].at = "idle",
           NEW p \in Producers, feedCaller' = [feedCaller EXCEPT ![c] = p],
           p.at = "announcing" \/ p.target = NoTarget, p.at # "announcing" => p.target = NoTarget,
           p.target = NoTarget \/ \E k \in DOMAIN feed :
               Mergeable(feed[k]) /\ p.target = [id |-> feed[k].id, games |-> feed[k].games],
           p.at = "alerting" => Alerts = {},
           Overlaps(c), UNCHANGED <<feed, rowsMade, analyzed>>
    PROVE  FeedInv'
<1>1. feedCaller \in [FeedCallers -> Producers]
  BY DEF FeedInv, FeedTypeOK, Producers, Targets
<1>2. /\ feedCaller' \in [FeedCallers -> Producers] /\ feedCaller'[c] = p
      /\ \A d \in FeedCallers \ {c} : feedCaller'[d] = feedCaller[d]
  BY <1>1
<1>3. FeedTypeOK'
  BY <1>2 DEF FeedInv, FeedTypeOK, Producers, Targets, Overlaps
<1>4. RowsFit'
  <2>1. PICK D, E : D = {d \in FeedCallers : feedCaller[d].at = "done"}
                    /\ E = {d \in FeedCallers : feedCaller'[d].at = "done"}
    OBVIOUS
  <2>2. D \subseteq E
    BY <1>2, <2>1
  <2>3. Cardinality(D) <= Cardinality(E) /\ Cardinality(D) \in Nat /\ Cardinality(E) \in Nat
    <3>1. IsFiniteSet(E)
      BY <2>1, FS_Subset, NotificationFeedAssumption
    <3> QED BY <2>2, <3>1, FS_Subset, FS_CardinalityType
  <2>4. rowsMade \in Nat /\ rowsMade <= Cardinality(D)
    BY <2>1 DEF FeedInv, FeedTypeOK, RowsFit
  <2>5. rowsMade <= Cardinality(E)
    BY <2>3, <2>4
  <2>6. \A d \in analyzed : feedCaller'[d].at = "done"
    BY <1>2 DEF FeedInv, FeedTypeOK, RowsFit
  <2> QED BY <2>1, <2>5, <2>6 DEF FeedInv, RowsFit
<1>5. CountsFit'
  BY DEF FeedInv, CountsFit
<1>6. ASSUME NEW d \in FeedCallers PROVE TargetFits(d)'
  <2>1. PICK it \in Targets : it = p.target
    BY DEF Producers
  <2>2. CASE it = NoTarget
    <3>1. it.id = 0 /\ it.games = {}
      BY <2>2 DEF NoTarget
    <3>2. CASE d = c
      BY <1>2, <2>1, <3>1, <3>2 DEF TargetFits
    <3>3. CASE d # c
      <4>1. TargetFits(d) /\ feedCaller'[d] = feedCaller[d]
        BY <1>2, <3>3 DEF FeedInv
      <4>2. \A e \in FeedCallers : feedCaller'[e].target.id # feedCaller[d].target.id =>
                feedCaller'[e].target.games \intersect feedCaller[d].target.games = {}
        <5>1. ASSUME NEW e \in FeedCallers, feedCaller'[e].target.id # feedCaller[d].target.id
              PROVE  feedCaller'[e].target.games \intersect feedCaller[d].target.games = {}
          <6>1. CASE e = c
            BY <1>2, <2>1, <3>1, <6>1
          <6>2. CASE e # c
            BY <1>2, <4>1, <5>1, <6>2 DEF TargetFits
          <6> QED BY <6>1, <6>2
        <5> QED BY <5>1
      <4> QED BY <4>1, <4>2 DEF TargetFits
    <3> QED BY <3>2, <3>3
  <2>3. CASE it # NoTarget
    <3>1. PICK k \in DOMAIN feed : it = [id |-> feed[k].id, games |-> feed[k].games]
      BY <2>1, <2>3
    <3>2. /\ it.id = feed[k].id /\ it.games = feed[k].games
          /\ it.id # 0 /\ it.games \subseteq analyzed
      BY <3>1, RowsOf DEF FeedInv, CountsFit, Rows
    <3>3. \A i \in DOMAIN feed : feed[i].id # it.id => feed[i].games \intersect it.games = {}
      BY <3>2 DEF FeedInv, CountsFit
    <3>4. \A e \in FeedCallers : feedCaller[e].target.id # it.id =>
              feedCaller[e].target.games \intersect it.games = {}
      BY <3>2 DEF FeedInv, TargetFits
    <3>5. CASE d = c
      <4>1. feedCaller'[d].target = it
        BY <1>2, <2>1, <3>5
      <4>2. \A e \in FeedCallers : feedCaller'[e].target.id # it.id =>
                feedCaller'[e].target.games \intersect it.games = {}
        BY <1>2, <2>1, <3>4
      <4> QED BY <3>2, <3>3, <4>1, <4>2 DEF TargetFits
    <3>6. CASE d # c
      <4>1. feedCaller'[d] = feedCaller[d]
        BY <1>2, <3>6
      <4>2. TargetFits(d)
        BY DEF FeedInv
      <4>3. \A e \in FeedCallers : feedCaller'[e].target.id # feedCaller[d].target.id =>
                feedCaller'[e].target.games \intersect feedCaller[d].target.games = {}
        <5>1. ASSUME NEW e \in FeedCallers, feedCaller'[e].target.id # feedCaller[d].target.id
              PROVE  feedCaller'[e].target.games \intersect feedCaller[d].target.games = {}
          <6>1. CASE e = c
            BY <1>2, <2>1, <3>4, <5>1, <6>1
          <6>2. CASE e # c
            BY <1>2, <4>2, <5>1, <6>2 DEF TargetFits
          <6> QED BY <6>1, <6>2
        <5> QED BY <5>1
      <4> QED BY <4>1, <4>2, <4>3 DEF TargetFits
    <3> QED BY <3>5, <3>6
  <2> QED BY <2>2, <2>3
<1>7. Undisturbed'
  <2> SUFFICES ASSUME ~overlap'
      PROVE  /\ \A d, e \in InCall' : d = e
             /\ analyzed \subseteq Announced
             /\ \A i, j \in Alerts : i = j
             /\ \A d \in FeedCallers : AsSeen(d)'
    BY DEF Undisturbed, Announced, Alerts
  <2>1. ~overlap /\ InCall \subseteq {c}
    BY DEF Overlaps
  <2>2. InCall' \subseteq {c}
    BY <1>2, <2>1 DEF InCall
  <2>3. analyzed \subseteq Announced /\ \A i, j \in Alerts : i = j
    BY <2>1 DEF FeedInv, Undisturbed
  <2>4. AsSeen(c)'
    <3>1. p.at = "announcing" => \A i \in DOMAIN feed : feed[i].id = p.target.id =>
              feed[i].games = p.target.games /\ ~feed[i].read
      <4>1. SUFFICES ASSUME NEW i \in DOMAIN feed, feed[i].id = p.target.id
                     PROVE  feed[i].games = p.target.games /\ ~feed[i].read
        OBVIOUS
      <4>2. feed[i].id # 0
        BY RowsOf DEF Rows
      <4>3. p.target # NoTarget
        BY <4>1, <4>2 DEF NoTarget
      <4>4. PICK k \in DOMAIN feed : Mergeable(feed[k])
                                     /\ p.target = [id |-> feed[k].id, games |-> feed[k].games]
        BY <4>3
      <4>5. i = k
        BY <4>1, <4>4 DEF FeedInv, RowsFit
      <4> QED BY <4>4, <4>5 DEF Mergeable
    <3> QED BY <1>2, <3>1 DEF AsSeen, Alerts
  <2>5. ASSUME NEW d \in FeedCallers, d # c PROVE AsSeen(d)'
    <3>1. feedCaller'[d].at \notin {"announcing", "alerting"}
      BY <2>2, <2>5 DEF InCall
    <3> QED BY <3>1 DEF AsSeen
  <2> QED BY <2>2, <2>3, <2>4, <2>5
<1> QED BY <1>3, <1>4, <1>5, <1>6, <1>7 DEF FeedInv

LEMMA FindTargetKeeps ==
    ASSUME FeedInv, NEW c \in FeedCallers, FindTarget(c)
    PROVE  FeedInv'
<1>1. PICK it : it = MergeTarget
  OBVIOUS
<1>2. it \in Targets
  <2>1. CASE it = NoTarget
    BY <2>1, NotificationFeedAssumption DEF Targets, NoTarget
  <2>2. CASE it # NoTarget
    <3>1. PICK k \in DOMAIN feed : it = [id |-> feed[k].id, games |-> feed[k].games]
      BY <1>1, <2>2, TargetIsRow
    <3> QED BY <3>1, RowsOf DEF Rows, Targets
  <2> QED BY <2>1, <2>2
<1>3. PICK p : p = [at |-> "announcing", target |-> it]
  OBVIOUS
<1>4. p \in Producers /\ p.at = "announcing" /\ p.target = it
  BY <1>2, <1>3 DEF Producers
<1> QED BY <1>1, <1>3, <1>4, TargetIsRow, LookKeeps DEF FindTarget

LEMMA LookForAlertKeeps ==
    ASSUME FeedInv, NEW c \in FeedCallers, LookForAlert(c)
    PROVE  FeedInv'
<1>1. PICK p : p = [Waiting EXCEPT !.at = IF Suppressed THEN "done" ELSE "alerting"]
  OBVIOUS
<1>2. p \in Producers /\ p.target = NoTarget /\ p.at \in {"done", "alerting"}
      /\ (p.at = "alerting" => ~Suppressed)
  <2>1. NoTarget \in Targets
    BY NotificationFeedAssumption DEF Targets, NoTarget
  <2> QED BY <1>1, <2>1 DEF Waiting, Producers
<1> QED BY <1>1, <1>2, LookKeeps DEF LookForAlert, Suppressed

\* The end of a producer call: it leaves room for the row it may have made.
LEMMA FinishFits ==
    ASSUME FeedInv, NEW c \in FeedCallers, feedCaller[c].at \in {"announcing", "alerting"}, Finish(c)
    PROVE  /\ feedCaller' \in [FeedCallers -> Producers]
           /\ feedCaller'[c].at = "done" /\ feedCaller'[c].target = NoTarget
           /\ \A d \in FeedCallers \ {c} : feedCaller'[d] = feedCaller[d]
           /\ rowsMade + 1 <= Cardinality({d \in FeedCallers : feedCaller'[d].at = "done"})
           /\ rowsMade + 1 <= MaxRows
           /\ InCall' = InCall \ {c} /\ c \notin analyzed
<1>1. feedCaller \in [FeedCallers -> Producers]
  BY DEF FeedInv, FeedTypeOK, Producers, Targets
<1>2. PICK p : p = [Waiting EXCEPT !.at = "done"]
  OBVIOUS
<1>3. p \in Producers /\ p.at = "done" /\ p.target = NoTarget
  <2>1. NoTarget \in Targets
    BY NotificationFeedAssumption DEF Targets, NoTarget
  <2> QED BY <1>2, <2>1 DEF Waiting, Producers
<1>4. /\ feedCaller' \in [FeedCallers -> Producers] /\ feedCaller'[c] = p
      /\ \A d \in FeedCallers \ {c} : feedCaller'[d] = feedCaller[d]
  BY <1>1, <1>2, <1>3 DEF Finish
<1>5. PICK D, E : D = {d \in FeedCallers : feedCaller[d].at = "done"}
                  /\ E = {d \in FeedCallers : feedCaller'[d].at = "done"}
  OBVIOUS
<1>6. E = D \union {c} /\ c \notin D
  BY <1>3, <1>4, <1>5
<1>7. IsFiniteSet(D) /\ IsFiniteSet(E) /\ Cardinality(E) <= Cardinality(FeedCallers)
  BY <1>5, FS_Subset, NotificationFeedAssumption
<1>8. Cardinality(E) = Cardinality(D) + 1 /\ Cardinality(D) \in Nat
  BY <1>6, <1>7, FS_AddElement, FS_CardinalityType
<1>9. PICK r \in Nat, x \in Nat : r = rowsMade /\ x = Cardinality(D) /\ r <= x
  <2>1. rowsMade \in Nat
    BY NotificationFeedAssumption DEF FeedInv, FeedTypeOK
  <2>2. rowsMade <= Cardinality(D)
    BY <1>5 DEF FeedInv, RowsFit
  <2> QED BY <1>8, <2>1, <2>2
<1>10. PICK y \in Nat, m \in Nat : y = Cardinality(FeedCallers) /\ m = MaxRows /\ y <= m
  BY NotificationFeedAssumption, FS_CardinalityType
<1>11. x + 1 <= y /\ Cardinality(E) = x + 1
  BY <1>7, <1>8, <1>9, <1>10
<1>12. r + 1 <= x + 1 /\ r + 1 <= m
  BY <1>9, <1>10, <1>11
<1>13. InCall' = InCall \ {c}
  BY <1>3, <1>4 DEF InCall
<1>14. c \notin analyzed
  BY DEF FeedInv, RowsFit
<1> QED BY <1>3, <1>4, <1>5, <1>9, <1>10, <1>11, <1>12, <1>13, <1>14

\* Whoever has finished holds on to nothing.
LEMMA NotifyFailsKeeps ==
    ASSUME FeedInv, NEW c \in FeedCallers, NotifyFails(c)
    PROVE  FeedInv'
<1>1. feedCaller[c].at \in {"announcing", "alerting"} /\ Finish(c)
      /\ UNCHANGED <<feed, rowsMade, analyzed, overlap>>
  BY DEF NotifyFails
<1>2. /\ feedCaller' \in [FeedCallers -> Producers]
      /\ feedCaller'[c].at = "done" /\ feedCaller'[c].target = NoTarget
      /\ \A d \in FeedCallers \ {c} : feedCaller'[d] = feedCaller[d]
      /\ rowsMade + 1 <= Cardinality({d \in FeedCallers : feedCaller'[d].at = "done"})
      /\ InCall' = InCall \ {c} /\ c \notin analyzed
  BY <1>1, FinishFits
<1>3. FeedTypeOK'
  BY <1>1, <1>2 DEF FeedInv, FeedTypeOK, Producers, Targets
<1>4. RowsFit'
  <2>1. PICK D : D = {d \in FeedCallers : feedCaller'[d].at = "done"}
    OBVIOUS
  <2>2. Cardinality(D) \in Nat
    BY <2>1, FS_Subset, FS_CardinalityType, NotificationFeedAssumption
  <2>3. rowsMade \in Nat /\ rowsMade + 1 <= Cardinality(D)
    BY <1>2, <2>1 DEF FeedInv, FeedTypeOK
  <2>4. rowsMade <= Cardinality(D)
    BY <2>2, <2>3
  <2>5. \A d \in analyzed : feedCaller'[d].at = "done"
    BY <1>2 DEF FeedInv, FeedTypeOK, RowsFit
  <2> QED BY <1>1, <2>1, <2>4, <2>5 DEF FeedInv, RowsFit
<1>5. CountsFit'
  BY <1>1 DEF FeedInv, CountsFit
<1>6. ASSUME NEW d \in FeedCallers PROVE TargetFits(d)'
  <2>1. TargetFits(d)
    BY DEF FeedInv
  <2>2. CASE d = c
    BY <1>1, <1>2, <2>2 DEF TargetFits, NoTarget
  <2>3. CASE d # c
    <3>1. feedCaller'[d] = feedCaller[d]
      BY <1>2, <2>3
    <3>2. \A e \in FeedCallers : feedCaller'[e].target = NoTarget \/ feedCaller'[e] = feedCaller[e]
      BY <1>2
    <3>3. \A e \in FeedCallers : feedCaller'[e].target.id # feedCaller[d].target.id =>
              feedCaller'[e].target.games \intersect feedCaller[d].target.games = {}
      BY <2>1, <3>2 DEF TargetFits, NoTarget
    <3> QED BY <1>1, <2>1, <3>1, <3>3 DEF TargetFits
  <2> QED BY <2>2, <2>3
<1>7. Undisturbed'
  <2> SUFFICES ASSUME ~overlap
      PROVE  /\ \A d, e \in InCall' : d = e
             /\ analyzed \subseteq Announced
             /\ \A i, j \in Alerts : i = j
             /\ \A d \in FeedCallers : AsSeen(d)'
    BY <1>1 DEF Undisturbed, Announced, Alerts
  <2>1. /\ \A d, e \in InCall : d = e
        /\ analyzed \subseteq Announced
        /\ \A i, j \in Alerts : i = j
        /\ \A d \in FeedCallers : AsSeen(d)
    BY DEF FeedInv, Undisturbed
  <2>2. ASSUME NEW d \in FeedCallers PROVE AsSeen(d)'
    <3>1. CASE d = c
      BY <1>2, <3>1 DEF AsSeen
    <3>2. CASE d # c
      BY <1>1, <1>2, <2>1, <3>2 DEF AsSeen, Alerts
    <3> QED BY <3>1, <3>2
  <2> QED BY <1>2, <2>1, <2>2
<1> QED BY <1>3, <1>4, <1>5, <1>6, <1>7 DEF FeedInv

\* A row more: an alert nobody else has raised meanwhile, or a count of its own.
LEMMA PostKeeps ==
    ASSUME FeedInv, NEW c \in FeedCallers, feedCaller[c].at \in {"announcing", "alerting"},
           NEW type \in {"game_analyzed", "system_alert"}, NEW g \in SUBSET {c},
           type = "system_alert" => feedCaller[c].at = "alerting",
           Post(type, g), analyzed' = analyzed \union g, Finish(c), Overlaps(c)
    PROVE  FeedInv'
<1>1. PICK new \in Rows :
          /\ feed' = Append(feed, new) /\ new.id = rowsMade + 1 /\ new.games = g /\ new.type = type
  <2>1. PICK new : new = [id |-> rowsMade + 1, type |-> type, games |-> g,
                          read |-> FALSE, dismissed |-> FALSE, age |-> "merge"]
    OBVIOUS
  <2>2. rowsMade + 1 \in 1..MaxRows
    <3>1. rowsMade \in Nat /\ rowsMade + 1 <= MaxRows /\ MaxRows \in Nat
      <4>1. rowsMade \in Nat /\ MaxRows \in Nat
        BY NotificationFeedAssumption DEF FeedInv, FeedTypeOK
      <4>2. rowsMade + 1 <= MaxRows
        BY FinishFits
      <4> QED BY <4>1, <4>2
    <3> QED BY ONLY <3>1
  <2>3. g \in SUBSET FeedCallers
    OBVIOUS
  <2>4. new \in Rows /\ new.id = rowsMade + 1 /\ new.games = g /\ new.type = type
    BY <2>1, <2>2, <2>3 DEF Rows, Ages
  <2> QED BY <2>1, <2>4 DEF Post
<1>2. /\ feedCaller' \in [FeedCallers -> Producers]
      /\ feedCaller'[c].at = "done" /\ feedCaller'[c].target = NoTarget
      /\ \A d \in FeedCallers \ {c} : feedCaller'[d] = feedCaller[d]
      /\ rowsMade + 1 <= Cardinality({d \in FeedCallers : feedCaller'[d].at = "done"})
      /\ rowsMade + 1 <= MaxRows
      /\ InCall' = InCall \ {c} /\ c \notin analyzed
  BY FinishFits
<1>3. PICK n \in Nat : n = Len(feed) /\ n = rowsMade /\ DOMAIN feed = 1..n
  BY RowsOf, LenProperties DEF FeedInv, FeedTypeOK
<1>4. rowsMade' = n + 1
  BY <1>3 DEF Post
<1>5. /\ feed' \in Seq(Rows) /\ Len(feed') = n + 1 /\ DOMAIN feed' = 1..(n + 1)
      /\ feed'[n + 1] = new /\ \A i \in 1..n : feed'[i] = feed[i]
  <2>1. /\ feed' \in Seq(Rows) /\ Len(feed') = Len(feed) + 1
        /\ feed'[Len(feed) + 1] = new /\ \A i \in 1..Len(feed) : feed'[i] = feed[i]
    BY <1>1, RowsOf, AppendProperties
  <2> QED BY <1>3, <2>1, LenProperties
<1>6. /\ DOMAIN feed' = DOMAIN feed \union {n + 1} /\ n + 1 \notin DOMAIN feed
  BY <1>3, <1>5
<1>7. \A i \in DOMAIN feed : feed[i].id \in Nat /\ feed[i].id <= n
  BY <1>3, RowsOf DEF FeedInv, RowsFit, Rows
<1>8. \A i \in DOMAIN feed : feed[i].id # n + 1
  BY <1>7
<1>9. FeedTypeOK'
  <2>1. n + 1 \in 0..MaxRows
    BY <1>2, <1>3, NotificationFeedAssumption
  <2>2. analyzed' \in SUBSET FeedCallers /\ overlap' \in BOOLEAN
    BY DEF FeedInv, FeedTypeOK, Overlaps
  <2> QED BY <1>2, <1>4, <1>5, <2>1, <2>2 DEF FeedTypeOK, Producers, Targets
<1>10. RowsFit'
  <2>1. \A i, j \in DOMAIN feed' : feed'[i].id = feed'[j].id => i = j
    BY <1>1, <1>3, <1>5, <1>6, <1>8 DEF FeedInv, RowsFit
  <2>2. \A i \in DOMAIN feed' : feed'[i].id <= n + 1
    <3>1. \A i \in DOMAIN feed : feed[i].id <= n + 1
      BY <1>7
    <3>2. n + 1 <= n + 1
      OBVIOUS
    <3> QED BY <1>1, <1>3, <1>5, <1>6, <3>1, <3>2
  <2>3. \A d \in analyzed' : feedCaller'[d].at = "done"
    BY <1>2 DEF FeedInv, FeedTypeOK, RowsFit
  <2> QED BY <1>2, <1>3, <1>4, <2>1, <2>2, <2>3 DEF RowsFit
<1>11. CountsFit'
  BY <1>1, <1>2, <1>3, <1>5, <1>6 DEF FeedInv, CountsFit
<1>12. ASSUME NEW d \in FeedCallers PROVE TargetFits(d)'
  <2>1. CASE d = c
    BY <1>2, <2>1 DEF TargetFits, NoTarget
  <2>2. CASE d # c
    <3>1. PICK it : it = feedCaller[d].target /\ it = feedCaller'[d].target
      BY <1>2, <2>2
    <3>2. /\ it.games \subseteq analyzed
          /\ it.id = 0 => it.games = {}
          /\ it.id # 0 => \E i \in DOMAIN feed : feed[i].id = it.id
          /\ \A i \in DOMAIN feed : feed[i].id # it.id => feed[i].games \intersect it.games = {}
          /\ \A e \in FeedCallers : feedCaller[e].target.id # it.id =>
                feedCaller[e].target.games \intersect it.games = {}
      BY <3>1 DEF FeedInv, TargetFits
    <3>3. \A e \in FeedCallers : feedCaller'[e].target = NoTarget \/ feedCaller'[e] = feedCaller[e]
      BY <1>2
    <3>4. \A e \in FeedCallers : feedCaller'[e].target.id # it.id =>
              feedCaller'[e].target.games \intersect it.games = {}
      BY <3>2, <3>3 DEF NoTarget
    <3>5. \A i \in DOMAIN feed' : feed'[i].id # it.id => feed'[i].games \intersect it.games = {}
      BY <1>1, <1>2, <1>3, <1>5, <1>6, <3>2
    <3>6. it.id # 0 => \E i \in DOMAIN feed' : feed'[i].id = it.id
      BY <1>3, <1>5, <1>6, <3>2
    <3> QED BY <3>1, <3>2, <3>4, <3>5, <3>6 DEF TargetFits
  <2> QED BY <2>1, <2>2
<1>13. Undisturbed'
  <2> SUFFICES ASSUME ~overlap'
      PROVE  /\ \A d, e \in InCall' : d = e
             /\ analyzed' \subseteq Announced'
             /\ \A i, j \in Alerts' : i = j
             /\ \A d \in FeedCallers : AsSeen(d)'
    BY DEF Undisturbed
  <2>1. ~overlap /\ InCall' = {}
    BY <1>2 DEF Overlaps
  <2>2. /\ analyzed \subseteq Announced
        /\ \A i, j \in Alerts : i = j
        /\ AsSeen(c)
    BY <2>1 DEF FeedInv, Undisturbed
  <2>3. Announced' = Announced \union g
    BY <1>1, <1>3, <1>5, <1>6 DEF Announced
  <2>4. \A i, j \in Alerts' : i = j
    <3>1. CASE type = "system_alert"
      <4>1. Alerts = {}
        BY <2>2, <3>1 DEF AsSeen
      <4>2. Alerts' \subseteq {n + 1}
        BY <1>3, <1>5, <1>6, <4>1 DEF Alerts
      <4> QED BY <4>2
    <3>2. CASE type = "game_analyzed"
      <4>1. ~LiveAlert(new)
        BY <1>1, <3>2 DEF LiveAlert
      <4>2. Alerts' \subseteq Alerts
        BY <1>3, <1>5, <1>6, <4>1 DEF Alerts
      <4> QED BY <2>2, <4>2
    <3> QED BY <3>1, <3>2
  <2>5. ASSUME NEW d \in FeedCallers PROVE AsSeen(d)'
    <3>1. feedCaller'[d].at \notin {"announcing", "alerting"}
      BY <2>1, <2>5 DEF InCall
    <3> QED BY <3>1 DEF AsSeen
  <2> QED BY <2>1, <2>2, <2>3, <2>4, <2>5
<1> QED BY <1>9, <1>10, <1>11, <1>12, <1>13 DEF FeedInv

\* The rows there were stay where they are.
LEMMA PostExtends ==
    ASSUME FeedInv, NEW type, NEW g, Post(type, g)
    PROVE  \A i \in DOMAIN feed : i \in DOMAIN feed' /\ feed'[i] = feed[i]
<1>1. PICK new : feed' = Append(feed, new)
  BY DEF Post
<1>2. PICK n \in Nat : n = Len(feed) /\ DOMAIN feed = 1..n
  BY RowsOf, LenProperties
<1>3. PICK S : S = Rows \union {new}
  OBVIOUS
<1>4. feed \in Seq(S) /\ new \in S
  <2>1. feed = [i \in DOMAIN feed |-> feed[i]] /\ \A i \in DOMAIN feed : feed[i] \in S
    BY <1>3, RowsOf
  <2>2. feed \in [1..n -> S]
    BY <1>2, <2>1
  <2> QED BY <1>2, <1>3, <2>2
<1>5. Len(feed') = Len(feed) + 1 /\ feed' \in Seq(S) /\ \A i \in 1..Len(feed) : feed'[i] = feed[i]
  BY <1>1, <1>4, AppendProperties
<1>6. DOMAIN feed' = 1..(n + 1)
  BY <1>2, <1>5, LenProperties
<1> QED BY <1>2, <1>5, <1>6

LEMMA NotifyDisconnectedKeeps ==
    ASSUME FeedInv, NEW c \in FeedCallers, NotifyDisconnected(c)
    PROVE  FeedInv'
BY PostKeeps DEF NotifyDisconnected

\* Moving the row at z to the end of n sends no two rows to one place.
LEMMA ShiftsApart ==
    ASSUME NEW n \in Nat, NEW x \in Nat, NEW y \in Nat, NEW z \in Nat, x <= n, y <= n, z <= n,
           (IF x < z THEN x ELSE IF x < n THEN x + 1 ELSE z)
               = IF y < z THEN y ELSE IF y < n THEN y + 1 ELSE z
    PROVE  x = y
OBVIOUS

\* A merge: the row the producer has read moves to the end, with the calls it
\* has counted and its own.
LEMMA MergeKeeps ==
    ASSUME FeedInv, NEW c \in FeedCallers, feedCaller[c].at = "announcing",
           NEW k \in DOMAIN feed, feed[k].id = feedCaller[c].target.id,
           feed' = Append(RemoveAt(feed, k),
                          [feed[k] EXCEPT !.games = feedCaller[c].target.games \union {c}, !.age = "merge"]),
           UNCHANGED rowsMade, analyzed' = analyzed \union {c}, Finish(c), Overlaps(c)
    PROVE  /\ FeedInv'
           /\ ~overlap' => \A i \in DOMAIN feed : feed[i].read =>
                  \E j \in DOMAIN feed' : feed'[j].id = feed[i].id /\ feed'[j].games = feed[i].games
<1>1. PICK it \in Targets : it = feedCaller[c].target
  BY DEF FeedInv, FeedTypeOK, Targets
<1>2. PICK merged \in Rows : merged = feed[k]
  BY RowsOf
<1>3. PICK new : new = [merged EXCEPT !.games = it.games \union {c}, !.age = "merge"]
  OBVIOUS
<1>4. /\ new \in Rows /\ new.id = it.id /\ new.id = feed[k].id /\ new.games = it.games \union {c}
      /\ new.type = merged.type /\ new.dismissed = merged.dismissed /\ new.read = merged.read
  <2>1. it.games \union {c} \in SUBSET FeedCallers
    BY <1>1 DEF Targets
  <2>2. merged.id = it.id
    BY <1>1, <1>2
  <2> QED BY <1>2, <1>3, <2>1, <2>2 DEF Rows, Ages
<1>5. /\ feedCaller' \in [FeedCallers -> Producers]
      /\ feedCaller'[c].at = "done" /\ feedCaller'[c].target = NoTarget
      /\ \A d \in FeedCallers \ {c} : feedCaller'[d] = feedCaller[d]
      /\ rowsMade + 1 <= Cardinality({d \in FeedCallers : feedCaller'[d].at = "done"})
      /\ InCall' = InCall \ {c} /\ c \notin analyzed
  BY FinishFits
<1>6. PICK n \in Nat : n = Len(feed) /\ DOMAIN feed = 1..n /\ k \in 1..n
  BY RowsOf, LenProperties
<1>7. /\ feed' \in Seq(Rows) /\ Len(feed') = n /\ DOMAIN feed' = 1..n
      /\ \A i \in 1..n : feed'[i] = IF i < k THEN feed[i] ELSE IF i < n THEN feed[i + 1] ELSE new
  <2>1. feed' = Append(RemoveAt(feed, k), new)
    BY <1>1, <1>2, <1>3
  <2>2. /\ feed' \in Seq(Rows) /\ Len(feed') = Len(feed)
        /\ \A i \in 1..Len(feed) : feed'[i] =
              IF i < k THEN feed[i] ELSE IF i < Len(feed) THEN feed[i + 1] ELSE new
    <3>1. feed \in Seq(Rows)
      BY RowsOf
    <3>2. /\ Append(RemoveAt(feed, k), new) \in Seq(Rows)
          /\ Len(Append(RemoveAt(feed, k), new)) = Len(feed)
          /\ \A i \in 1..Len(feed) : Append(RemoveAt(feed, k), new)[i] =
                IF i < k THEN feed[i] ELSE IF i < Len(feed) THEN feed[i + 1] ELSE new
      BY <1>4, <3>1, MovedToEnd
    <3> QED BY <2>1, <3>2
  <2> QED BY <1>6, <2>2, LenProperties
\* Where each row of the new feed was in the old one.
<1>8. PICK was : was = [i \in 1..n |-> IF i < k THEN i ELSE IF i < n THEN i + 1 ELSE k]
  OBVIOUS
<1>9. /\ \A i \in 1..n : was[i] \in 1..n
      /\ \A i, j \in 1..n : was[i] = was[j] => i = j
      /\ \A j \in 1..n : \E i \in 1..n : was[i] = j
  <2>1. ASSUME NEW i \in 1..n PROVE was[i] \in 1..n
    BY <1>6, <1>8
  <2>2. ASSUME NEW i \in 1..n, NEW j \in 1..n, was[i] = was[j] PROVE i = j
    <3>1. was[i] = IF i < k THEN i ELSE IF i < n THEN i + 1 ELSE k
      BY <1>8
    <3>2. was[j] = IF j < k THEN j ELSE IF j < n THEN j + 1 ELSE k
      BY <1>8
    <3>3. PICK x \in Nat, y \in Nat, z \in Nat : x = i /\ y = j /\ z = k /\ x <= n /\ y <= n /\ z <= n
      BY <1>6
    <3>4. (IF x < z THEN x ELSE IF x < n THEN x + 1 ELSE z) = IF y < z THEN y ELSE IF y < n THEN y + 1 ELSE z
      BY <2>2, <3>1, <3>2, <3>3
    <3>5. x = y
      BY <3>3, <3>4, ShiftsApart
    <3> QED BY <3>3, <3>5
  <2>3. ASSUME NEW j \in 1..n PROVE \E i \in 1..n : was[i] = j
    <3>1. CASE j < k
      BY <1>6, <1>8, <3>1
    <3>2. CASE j = k
      <4>1. n \in 1..n /\ was[n] = k
        BY <1>6, <1>8
      <4> QED BY <3>2, <4>1
    <3>3. CASE j > k
      <4>1. j - 1 \in 1..n /\ was[j - 1] = j
        BY <1>6, <1>8, <3>3
      <4> QED BY <4>1
    <3> QED BY <1>6, <3>1, <3>2, <3>3
  <2> QED BY <2>1, <2>2, <2>3
<1>10. \A i \in 1..n : feed'[i] = IF was[i] = k THEN new ELSE feed[was[i]]
  <2>1. ASSUME NEW i \in 1..n PROVE feed'[i] = IF was[i] = k THEN new ELSE feed[was[i]]
    <3>1. CASE i < k
      <4>1. was[i] = i /\ i # k
        BY <1>6, <1>8, <3>1
      <4> QED BY <1>7, <3>1, <4>1
    <3>2. CASE ~(i < k) /\ i < n
      <4>1. was[i] = i + 1 /\ i + 1 # k
        BY <1>6, <1>8, <3>2
      <4> QED BY <1>7, <3>2, <4>1
    <3>3. CASE ~(i < k) /\ ~(i < n)
      <4>1. was[i] = k
        BY <1>8, <3>3
      <4> QED BY <1>7, <3>3, <4>1
    <3> QED BY <3>1, <3>2, <3>3
  <2> QED BY <2>1
<1>11. \A i \in 1..n : feed'[i].id = feed[was[i]].id
  BY <1>4, <1>10
<1>12. FeedTypeOK'
  <2>1. analyzed' \in SUBSET FeedCallers /\ overlap' \in BOOLEAN
    BY DEF FeedInv, FeedTypeOK, Overlaps
  <2> QED BY <1>5, <1>6, <1>7, <2>1 DEF FeedInv, FeedTypeOK, Producers, Targets
<1>13. RowsFit'
  <2>0. /\ \A i, j \in 1..n : feed[i].id = feed[j].id => i = j
        /\ \A i \in 1..n : feed[i].id <= rowsMade
    BY <1>6 DEF FeedInv, RowsFit
  <2>1. ASSUME NEW i \in 1..n, NEW j \in 1..n, feed'[i].id = feed'[j].id PROVE i = j
    <3>1. was[i] \in 1..n /\ was[j] \in 1..n /\ feed[was[i]].id = feed[was[j]].id
      BY <1>9, <1>11, <2>1
    <3>2. was[i] = was[j]
      BY <2>0, <3>1
    <3> QED BY <1>9, <3>2
  <2>2. ASSUME NEW i \in 1..n PROVE feed'[i].id <= rowsMade
    <3>1. was[i] \in 1..n /\ feed'[i].id = feed[was[i]].id
      BY <1>9, <1>11
    <3> QED BY <2>0, <3>1
  <2>3. \A d \in analyzed' : feedCaller'[d].at = "done"
    BY <1>5 DEF FeedInv, FeedTypeOK, RowsFit
  <2>4. PICK D : D = {d \in FeedCallers : feedCaller'[d].at = "done"}
    OBVIOUS
  <2>5. Cardinality(D) \in Nat
    BY <2>4, FS_Subset, FS_CardinalityType, NotificationFeedAssumption
  <2>6. rowsMade \in Nat /\ rowsMade + 1 <= Cardinality(D)
    BY <1>5, <2>4, NotificationFeedAssumption DEF FeedInv, FeedTypeOK
  <2>7. rowsMade <= Cardinality(D)
    BY <2>5, <2>6
  <2> QED BY <1>7, <2>1, <2>2, <2>3, <2>4, <2>7 DEF RowsFit
<1>14. /\ it.games \subseteq analyzed
       /\ \A i \in 1..n : i # k => feed[i].games \intersect it.games = {}
       /\ \A e \in FeedCallers : feedCaller[e].target.id # it.id =>
             feedCaller[e].target.games \intersect it.games = {}
  <2>1. \A i \in 1..n : i # k => feed[i].id # it.id
    <3>1. \A i, j \in 1..n : feed[i].id = feed[j].id => i = j
      BY <1>6 DEF FeedInv, RowsFit
    <3>2. k \in 1..n /\ feed[k].id = it.id
      BY <1>1, <1>6
    <3> QED BY <3>1, <3>2
  <2> QED BY <1>1, <1>6, <2>1 DEF FeedInv, TargetFits
<1>15. \A i \in 1..n : feed[i].games \subseteq analyzed /\ c \notin feed[i].games
  BY <1>5, <1>6 DEF FeedInv, CountsFit
<1>16. CountsFit'
  <2>1. \A i \in 1..n : i # k => feed[i].games \intersect new.games = {}
    BY <1>4, <1>14, <1>15
  <2>2. \A i, j \in 1..n : i # j => feed[i].games \intersect feed[j].games = {}
    BY <1>6 DEF FeedInv, CountsFit
  <2>3. ASSUME NEW i \in 1..n, NEW j \in 1..n, i # j
        PROVE  feed'[i].games \intersect feed'[j].games = {}
    <3>1. was[i] # was[j] /\ was[i] \in 1..n /\ was[j] \in 1..n
      BY <1>9, <2>3
    <3>2. /\ feed'[i] = IF was[i] = k THEN new ELSE feed[was[i]]
          /\ feed'[j] = IF was[j] = k THEN new ELSE feed[was[j]]
      BY <1>10
    <3>3. CASE was[i] = k
      BY <2>1, <3>1, <3>2, <3>3
    <3>4. CASE was[i] # k /\ was[j] = k
      BY <2>1, <3>1, <3>2, <3>4
    <3>5. CASE was[i] # k /\ was[j] # k
      BY <2>2, <3>1, <3>2, <3>5
    <3> QED BY <3>3, <3>4, <3>5
  <2>4. ASSUME NEW i \in 1..n PROVE feed'[i].games \subseteq analyzed \union {c}
    <3>1. was[i] \in 1..n /\ (feed'[i] = new \/ feed'[i] = feed[was[i]])
      BY <1>9, <1>10
    <3> QED BY <1>4, <1>14, <1>15, <3>1
  <2> QED BY <1>7, <2>3, <2>4 DEF CountsFit
<1>17. ASSUME NEW d \in FeedCallers PROVE TargetFits(d)'
  <2>1. CASE d = c
    BY <1>5, <2>1 DEF TargetFits, NoTarget
  <2>2. CASE d # c
    <3>1. PICK its : its = feedCaller[d].target /\ its = feedCaller'[d].target
      BY <1>5, <2>2
    <3>2. /\ its.games \subseteq analyzed
          /\ its.id = 0 => its.games = {}
          /\ its.id # 0 => \E i \in DOMAIN feed : feed[i].id = its.id
          /\ \A i \in DOMAIN feed : feed[i].id # its.id => feed[i].games \intersect its.games = {}
          /\ \A e \in FeedCallers : feedCaller[e].target.id # its.id =>
                feedCaller[e].target.games \intersect its.games = {}
      BY <3>1 DEF FeedInv, TargetFits
    <3>3. \A e \in FeedCallers : feedCaller'[e].target = NoTarget \/ feedCaller'[e] = feedCaller[e]
      BY <1>5
    <3>4. \A e \in FeedCallers : feedCaller'[e].target.id # its.id =>
              feedCaller'[e].target.games \intersect its.games = {}
      BY <3>2, <3>3 DEF NoTarget
    <3>5. new.id # its.id => new.games \intersect its.games = {}
      <4>1. SUFFICES ASSUME new.id # its.id PROVE new.games \intersect its.games = {}
        OBVIOUS
      <4>2. it.games \intersect its.games = {}
        BY <1>1, <1>4, <3>2, <4>1
      <4> QED BY <1>4, <1>5, <3>2, <4>2
    <3>6. \A i \in 1..n : feed'[i].id # its.id => feed'[i].games \intersect its.games = {}
      <4>1. ASSUME NEW i \in 1..n, feed'[i].id # its.id PROVE feed'[i].games \intersect its.games = {}
        <5>1. was[i] \in DOMAIN feed /\ (feed'[i] = new \/ feed'[i] = feed[was[i]])
          BY <1>6, <1>9, <1>10
        <5> QED BY <3>2, <3>5, <4>1, <5>1
      <4> QED BY <4>1
    <3>7. its.id # 0 => \E i \in 1..n : feed'[i].id = its.id
      <4>1. ASSUME its.id # 0 PROVE \E i \in 1..n : feed'[i].id = its.id
        <5>1. PICK j \in 1..n : feed[j].id = its.id
          BY <1>6, <3>2, <4>1
        <5>2. PICK i \in 1..n : was[i] = j
          BY <1>9
        <5> QED BY <1>11, <5>1, <5>2
      <4> QED BY <4>1
    <3>8. its.games \subseteq analyzed' /\ (its.id = 0 => its.games = {})
      BY <3>2
    <3>9. DOMAIN feed' = 1..n
      BY <1>7
    <3> QED BY <3>1, <3>4, <3>6, <3>7, <3>8, <3>9 DEF TargetFits
  <2> QED BY <2>1, <2>2
<1>18. Undisturbed'
  <2> SUFFICES ASSUME ~overlap'
      PROVE  /\ \A d, e \in InCall' : d = e
             /\ analyzed' \subseteq Announced'
             /\ \A i, j \in Alerts' : i = j
             /\ \A d \in FeedCallers : AsSeen(d)'
    BY DEF Undisturbed
  <2>1. ~overlap /\ InCall' = {}
    BY <1>5 DEF Overlaps
  <2>2. /\ analyzed \subseteq Announced
        /\ \A i, j \in Alerts : i = j
        /\ feed[k].games = it.games
    BY <1>1, <2>1 DEF FeedInv, Undisturbed, AsSeen
  <2>3. ASSUME NEW x \in analyzed' PROVE x \in Announced'
    <3>1. CASE x \in new.games
      <4>1. PICK i \in 1..n : was[i] = k
        BY <1>6, <1>9
      <4>2. x \in feed'[i].games
        BY <1>10, <3>1, <4>1
      <4> QED BY <1>7, <4>2 DEF Announced
    <3>2. CASE x \notin new.games
      <4>1. x \in analyzed /\ x \notin it.games
        BY <1>4, <2>3, <3>2
      <4>2. PICK j \in 1..n : x \in feed[j].games
        BY <1>6, <2>2, <4>1 DEF Announced
      <4>3. j # k
        BY <2>2, <4>1, <4>2
      <4>4. PICK i \in 1..n : was[i] = j
        BY <1>9
      <4>5. x \in feed'[i].games
        BY <1>10, <4>2, <4>3, <4>4
      <4> QED BY <1>7, <4>5 DEF Announced
    <3> QED BY <3>1, <3>2
  <2>4. \A i \in 1..n : LiveAlert(feed'[i]) => LiveAlert(feed[was[i]])
    BY <1>2, <1>4, <1>10 DEF LiveAlert
  <2>5. \A i, j \in Alerts' : i = j
    <3>1. ASSUME NEW i \in Alerts', NEW j \in Alerts' PROVE i = j
      <4>1. i \in 1..n /\ j \in 1..n /\ LiveAlert(feed'[i]) /\ LiveAlert(feed'[j])
        BY <1>7, <3>1 DEF Alerts
      <4>2. was[i] \in Alerts /\ was[j] \in Alerts
        BY <1>6, <1>9, <2>4, <4>1 DEF Alerts
      <4>3. was[i] = was[j]
        BY <2>2, <4>2
      <4> QED BY <1>9, <4>1, <4>3
    <3> QED BY <3>1
  <2>6. ASSUME NEW d \in FeedCallers PROVE AsSeen(d)'
    <3>1. feedCaller'[d].at \notin {"announcing", "alerting"}
      BY <2>1, <2>6 DEF InCall
    <3> QED BY <3>1 DEF AsSeen
  <2> QED BY <2>1, <2>3, <2>5, <2>6
<1>19. FeedInv'
  BY <1>12, <1>13, <1>16, <1>17, <1>18 DEF FeedInv
<1>20. ASSUME ~overlap', NEW j \in DOMAIN feed, feed[j].read
       PROVE  \E i \in DOMAIN feed' : feed'[i].id = feed[j].id /\ feed'[i].games = feed[j].games
  <2>1. ~feed[k].read
    BY <1>20 DEF Overlaps, FeedInv, Undisturbed, AsSeen
  <2>2. PICK i \in 1..n : was[i] = j
    BY <1>6, <1>9
  <2>3. feed'[i] = feed[j]
    BY <1>10, <1>20, <2>1, <2>2
  <2> QED BY <1>7, <2>2, <2>3
<1> QED BY <1>19, <1>20

LEMMA NotifyGamesKeeps ==
    ASSUME FeedInv, NEW c \in FeedCallers, NotifyGamesAnalyzed(c)
    PROVE  /\ FeedInv'
           /\ ~overlap' => \A i \in DOMAIN feed : feed[i].read =>
                  \E j \in DOMAIN feed' : feed'[j].id = feed[i].id /\ feed'[j].games = feed[i].games
<1>1. feedCaller[c].at = "announcing" /\ analyzed' = analyzed \union {c} /\ Finish(c) /\ Overlaps(c)
  BY DEF NotifyGamesAnalyzed
<1>2. CASE Post("game_analyzed", {c})
  <2>1. {c} \in SUBSET {c}
    OBVIOUS
  <2>2. FeedInv'
    BY <1>1, <1>2, <2>1, PostKeeps
  <2>3. \A i \in DOMAIN feed : i \in DOMAIN feed' /\ feed'[i] = feed[i]
    BY <1>2, PostExtends
  <2> QED BY <2>2, <2>3
<1>3. ASSUME NEW k \in DOMAIN feed, feed[k].id = feedCaller[c].target.id, UNCHANGED rowsMade,
             feed' = Append(RemoveAt(feed, k),
                            [feed[k] EXCEPT !.games = feedCaller[c].target.games \union {c}, !.age = "merge"])
      PROVE  /\ FeedInv'
             /\ ~overlap' => \A i \in DOMAIN feed : feed[i].read =>
                    \E j \in DOMAIN feed' : feed'[j].id = feed[i].id /\ feed'[j].games = feed[i].games
  BY <1>1, <1>3, MergeKeeps
<1> QED BY <1>2, <1>3 DEF NotifyGamesAnalyzed, WriteTotal

LEMMA FeedStarts == FeedInit => FeedInv
<1> SUFFICES ASSUME FeedInit PROVE FeedInv
  OBVIOUS
<1>1. feed = <<>> /\ DOMAIN feed = {} /\ feed \in Seq(Rows) /\ Len(feed) = 0
  BY EmptySeq DEF FeedInit
<1>2. NoTarget \in Targets
  BY NotificationFeedAssumption DEF Targets, NoTarget
<1>3. Waiting \in Producers /\ Waiting.at = "idle" /\ Waiting.target = NoTarget
  BY <1>2 DEF Waiting, Producers
<1>4. feedCaller \in [FeedCallers -> Producers] /\ \A c \in FeedCallers : feedCaller[c] = Waiting
  BY <1>3 DEF FeedInit
<1>5. FeedTypeOK
  <2>1. rowsMade \in 0..MaxRows /\ Len(feed) = rowsMade
    BY <1>1, NotificationFeedAssumption DEF FeedInit
  <2>2. analyzed \in SUBSET FeedCallers /\ overlap \in BOOLEAN
    BY DEF FeedInit
  <2> QED BY <1>1, <1>4, <2>1, <2>2 DEF FeedTypeOK, Producers, Targets
<1>6. RowsFit
  <2>1. PICK D : D = {c \in FeedCallers : feedCaller[c].at = "done"}
    OBVIOUS
  <2>2. Cardinality(D) \in Nat
    BY <2>1, FS_Subset, FS_CardinalityType, NotificationFeedAssumption
  <2>3. rowsMade <= Cardinality(D)
    BY <2>2 DEF FeedInit
  <2> QED BY <1>1, <2>1, <2>3 DEF FeedInit, RowsFit
<1>7. CountsFit
  BY <1>1 DEF CountsFit
<1>8. \A c \in FeedCallers : TargetFits(c)
  BY <1>3, <1>4 DEF TargetFits, NoTarget
<1>9. Undisturbed
  BY <1>1, <1>3, <1>4 DEF FeedInit, Undisturbed, InCall, Alerts, AsSeen
<1> QED BY <1>5, <1>6, <1>7, <1>8, <1>9 DEF FeedInv

LEMMA FeedStep == FeedInv /\ [FeedNext]_feedVars => FeedInv'
<1> SUFFICES ASSUME FeedInv, [FeedNext]_feedVars PROVE FeedInv'
  OBVIOUS
<1>1. CASE MarkAllRead
  BY <1>1, MarkAllReadKeeps
<1>2. CASE ResolveDisconnected
  BY <1>2, ResolveKeeps
<1>3. ASSUME NEW k \in 1..MaxRows, MarkRead(k) PROVE FeedInv'
  BY <1>3, MarkReadKeeps
<1>4. ASSUME NEW k \in 1..MaxRows, Dismiss(k) PROVE FeedInv'
  BY <1>4, DismissKeeps
<1>5. ASSUME NEW k \in 1..MaxRows, Age(k) PROVE FeedInv'
  BY <1>5, AgeKeeps
<1>6. ASSUME NEW c \in FeedCallers, FindTarget(c) PROVE FeedInv'
  BY <1>6, FindTargetKeeps
<1>7. ASSUME NEW c \in FeedCallers, LookForAlert(c) PROVE FeedInv'
  BY <1>7, LookForAlertKeeps
<1>8. ASSUME NEW c \in FeedCallers, NotifyDisconnected(c) PROVE FeedInv'
  BY <1>8, NotifyDisconnectedKeeps
<1>9. ASSUME NEW c \in FeedCallers, NotifyFails(c) PROVE FeedInv'
  BY <1>9, NotifyFailsKeeps
<1>10. ASSUME NEW c \in FeedCallers, NotifyGamesAnalyzed(c) PROVE FeedInv'
  BY <1>10, NotifyGamesKeeps
<1>11. CASE UNCHANGED feedVars
  BY <1>11 DEF feedVars, FeedInv, FeedTypeOK, RowsFit, CountsFit, TargetFits, Undisturbed, AsSeen,
               InCall, Announced, Alerts
<1> QED BY <1>1, <1>2, <1>3, <1>4, <1>5, <1>6, <1>7, <1>8, <1>9, <1>10, <1>11 DEF FeedNext

\* notifications/service.py: ids, counts and what a producer has read of the row it
\* will write, for any number of producers, and, while nothing falls between a look
\* and a write, that what was seen still holds.
THEOREM FeedInvariance == FeedSpec => []FeedInv
<1>1. FeedInit => FeedInv
  BY FeedStarts
<1>2. FeedInv /\ [FeedNext]_feedVars => FeedInv'
  BY FeedStep
<1> QED BY <1>1, <1>2, PTL DEF FeedSpec

\* The feed announces no games twice and none that were not analyzed, and exactly the
\* analyzed ones, with one live alert, as long as no look and write are separated.
THEOREM FeedIsSafe == FeedSpec => []FeedSafe
<1>1. FeedInv => FeedSafe
  <2> SUFFICES ASSUME FeedInv PROVE FeedSafe
    OBVIOUS
  <2>1. Announced \subseteq analyzed
    BY DEF Announced, FeedInv, CountsFit
  <2>2. \A i, j \in DOMAIN feed : i # j => feed[i].games \intersect feed[j].games = {}
    BY DEF FeedInv, CountsFit
  <2>3. ~overlap => analyzed \subseteq Announced /\ \A i, j \in Alerts : i = j
    BY DEF FeedInv, Undisturbed
  <2>4. ~overlap => Announced = analyzed
    BY <2>1, <2>3
  <2>5. AnnouncesWhatWasAnalyzed
    BY <2>1, <2>2, <2>4 DEF AnnouncesWhatWasAnalyzed
  <2>6. OneLiveAlert
    BY <2>3 DEF OneLiveAlert
  <2>7. FeedTypeOK
    BY DEF FeedInv
  <2> QED BY <2>5, <2>6, <2>7 DEF FeedSafe
<1> QED BY <1>1, FeedInvariance, PTL

\* What a step leaves of the rows the player has read.
Frozen ==
    ~overlap' => \A i \in DOMAIN feed : feed[i].read =>
        \E k \in DOMAIN feed' : feed'[k].id = feed[i].id /\ feed'[k].games = feed[i].games

LEMMA SameRowsFrozen ==
    ASSUME \A i \in DOMAIN feed : i \in DOMAIN feed' /\ feed'[i].id = feed[i].id
                                  /\ feed'[i].games = feed[i].games
    PROVE  Frozen
BY DEF Frozen

LEMMA MarkReadFreezes ==
    ASSUME FeedInv, NEW id, MarkRead(id)
    PROVE  Frozen
<1>1. feed' = [i \in DOMAIN feed |-> IF feed[i].id = id THEN Read(feed[i]) ELSE feed[i]]
  BY DEF MarkRead, UpdateRows
<1> QED BY <1>1, RowsOf, RowStamps, SameRowsFrozen

LEMMA MarkAllReadFreezes ==
    ASSUME FeedInv, MarkAllRead
    PROVE  Frozen
<1>1. feed' = [i \in DOMAIN feed |-> IF Unread(feed[i]) THEN Read(feed[i]) ELSE feed[i]]
  BY DEF MarkAllRead, UpdateRows
<1> QED BY <1>1, RowsOf, RowStamps, SameRowsFrozen

LEMMA DismissFreezes ==
    ASSUME FeedInv, NEW id, Dismiss(id)
    PROVE  Frozen
<1>1. feed' = [i \in DOMAIN feed |-> IF feed[i].id = id THEN Dismissed(feed[i]) ELSE feed[i]]
  BY DEF Dismiss, UpdateRows
<1> QED BY <1>1, RowsOf, RowStamps, SameRowsFrozen

LEMMA ResolveFreezes ==
    ASSUME FeedInv, ResolveDisconnected
    PROVE  Frozen
<1>1. feed' = [i \in DOMAIN feed |-> IF LiveAlert(feed[i]) THEN Dismissed(feed[i]) ELSE feed[i]]
  BY DEF ResolveDisconnected, UpdateRows
<1> QED BY <1>1, RowsOf, RowStamps, SameRowsFrozen

LEMMA AgeFreezes ==
    ASSUME FeedInv, NEW k, Age(k)
    PROVE  Frozen
<1>1. k \in DOMAIN feed
  BY DEF Age
<1>2. PICK r : feed' = [feed EXCEPT ![k] = r] /\ r.id = feed[k].id /\ r.games = feed[k].games
  <2>1. PICK older : feed' = [feed EXCEPT ![k].age = older]
    BY DEF Age
  <2>2. PICK o \in Rows : o = feed[k]
    BY <1>1, RowsOf
  <2>3. PICK r : r = [o EXCEPT !.age = older]
    OBVIOUS
  <2>4. r.id = o.id /\ r.games = o.games
    BY <2>3 DEF Rows
  <2> QED BY <2>1, <2>2, <2>3, <2>4
<1>3. \A i \in DOMAIN feed : i \in DOMAIN feed' /\ feed'[i] = IF i = k THEN r ELSE feed[i]
  BY <1>1, <1>2, RowsOf
<1> QED BY <1>2, <1>3, SameRowsFrozen

LEMMA NextFreezes == FeedInv /\ [FeedNext]_feedVars => Frozen
<1> SUFFICES ASSUME FeedInv, [FeedNext]_feedVars PROVE Frozen
  OBVIOUS
<1>1. CASE MarkAllRead
  BY <1>1, MarkAllReadFreezes
<1>2. CASE ResolveDisconnected
  BY <1>2, ResolveFreezes
<1>3. ASSUME NEW k \in 1..MaxRows, MarkRead(k) PROVE Frozen
  BY <1>3, MarkReadFreezes
<1>4. ASSUME NEW k \in 1..MaxRows, Dismiss(k) PROVE Frozen
  BY <1>4, DismissFreezes
<1>5. ASSUME NEW k \in 1..MaxRows, Age(k) PROVE Frozen
  BY <1>5, AgeFreezes
<1>6. ASSUME NEW c \in FeedCallers, FindTarget(c) \/ LookForAlert(c) \/ NotifyFails(c) PROVE Frozen
  BY <1>6, SameRowsFrozen DEF FindTarget, LookForAlert, NotifyFails
<1>7. ASSUME NEW c \in FeedCallers, NotifyDisconnected(c) PROVE Frozen
  BY <1>7, PostExtends, SameRowsFrozen DEF NotifyDisconnected
<1>8. ASSUME NEW c \in FeedCallers, NotifyGamesAnalyzed(c) PROVE Frozen
  BY <1>8, NotifyGamesKeeps DEF Frozen
<1>9. CASE UNCHANGED feedVars
  BY <1>9, SameRowsFrozen DEF feedVars
<1> QED BY <1>1, <1>2, <1>3, <1>4, <1>5, <1>6, <1>7, <1>8, <1>9 DEF FeedNext

\* What the player has read does not change any more, as long as nothing falls
\* between a producer's look and its write.
THEOREM ReadRowsStay == FeedSpec => ReadRowsFrozen
<1>1. FeedInv /\ [FeedNext]_feedVars =>
        [~overlap' => \A i \in DOMAIN feed : feed[i].read =>
            \E k \in DOMAIN feed' : feed'[k].id = feed[i].id /\ feed'[k].games = feed[i].games]_feedVars
  BY NextFreezes DEF Frozen
<1> QED BY <1>1, FeedInvariance, PTL DEF FeedSpec, ReadRowsFrozen
=============================================================================
