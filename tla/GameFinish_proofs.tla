------------------------- MODULE GameFinish_proofs -------------------------
(***************************************************************************)
(* Theorems about what becomes of a finished game.  GameFinish, for every  *)
(* set of requests and every assignment of games to them: type             *)
(* correctness, one answer per game, no closed game outside the history,   *)
(* and the refinement of FinishLedger.  GameAnalysis, for every game of    *)
(* any tables of evaluations: that its losses, its errors, its first       *)
(* mistake and the cards of its review agree.                              *)
(***************************************************************************)
EXTENDS GameFinish, GameAnalysis, FiniteSetTheorems, SequenceTheorems, WellFoundedInduction,
        TLAPS

-----------------------------------------------------------------------------
(* The finish handler (GameFinish): the inductive invariant *)

\* The unique index: two rows of one tracked game are the same row.
OneRowPerGame ==
    \A i, j \in DOMAIN events :
        GameOf[events[i]] = GameOf[events[j]] /\ GameOf[events[i]] # NoGame => i = j

\* What a request has left behind agrees with where it is in the handler.
Journey ==
    \A r \in Requests :
        /\ pc[r] \in {"new", "fresh"} => r \notin Recorded
        /\ pc[r] \in {"stored", "closing", "rating", "rated", "recorded"} => r \in Recorded
        /\ pc[r] \in {"stored", "closing", "rating"} => r \notin applied
        /\ pc[r] = "closing" => GameOf[r] # NoGame
        /\ pc[r] = "recorded" => outcome[r] # None
        /\ outcome[r] # None =>
             pc[r] \in {"recorded", "replied", "stopped"} /\ r \in Recorded

\* Only recorded requests have rated, and a stored response is the one built.
Derived ==
    /\ applied \subseteq Recorded
    /\ \A r \in Requests : results[r] \in {None, outcome[r]}

\* An answer with a result is the one that a request of the same game built.
AnswersBuilt ==
    \A r \in Requests :
        GameOf[r] # NoGame /\ reply[r] \in Payloads =>
            \E s \in Recorded : GameOf[s] = GameOf[r] /\ reply[r] = outcome[s]

IInv == /\ TypeOK /\ OneRowPerGame /\ Journey /\ Derived
        /\ AnswersBuilt /\ ClosedGamesRecorded

-----------------------------------------------------------------------------
(* The history *)

\* The history as a set, and the rows a request may add to it.
LEMMA HistoryGrows ==
    ASSUME TypeOK, NEW r \in Requests, events' = Append(events, r)
    PROVE  /\ events' \in Seq(Requests)
           /\ DOMAIN events = 1 .. Len(events) /\ Len(events) \in Nat
           /\ DOMAIN events' = 1 .. Len(events) + 1
           /\ \A i \in DOMAIN events : events'[i] = events[i]
           /\ events'[Len(events) + 1] = r
           /\ Recorded' = Recorded \union {r}
           /\ \A g : EventsOf(g) \subseteq EventsOf(g)'
<1>1. /\ events' \in Seq(Requests)
      /\ Len(events') = Len(events) + 1
      /\ \A i \in 1 .. Len(events) : events'[i] = events[i]
      /\ events'[Len(events) + 1] = r
  BY AppendProperties DEF TypeOK
<1>2. /\ DOMAIN events = 1 .. Len(events) /\ Len(events) \in Nat
      /\ DOMAIN events' = 1 .. Len(events) + 1
  BY <1>1, LenProperties DEF TypeOK
<1>3. ASSUME NEW i \in DOMAIN events'
      PROVE  (i \in DOMAIN events /\ events'[i] = events[i])
             \/ (i = Len(events) + 1 /\ events'[i] = r)
  BY <1>1, <1>2
<1>4. DOMAIN events \subseteq DOMAIN events' /\ Len(events) + 1 \in DOMAIN events'
  BY <1>2
<1>5. Recorded' = Recorded \union {r}
  BY <1>1, <1>2, <1>3, <1>4 DEF Recorded
<1>6. \A g : EventsOf(g) \subseteq EventsOf(g)'
  BY <1>1, <1>2, <1>4 DEF EventsOf
<1> QED BY <1>1, <1>2, <1>5, <1>6

\* The row that the replay guard serves is a row of the game asked for.
LEMMA FirstIsRecorded ==
    ASSUME TypeOK, OneRowPerGame, NEW g, EventsOf(g) # {}
    PROVE  First(g) \in Recorded /\ GameOf[First(g)] = g /\ g # NoGame
<1>1. PICK k \in DOMAIN events : g # NoGame /\ GameOf[events[k]] = g
  BY DEF EventsOf
<1>2. k \in Nat
  BY <1>1, LenProperties DEF TypeOK
<1>3. EventsOf(g) = {k}
  BY <1>1 DEF EventsOf, OneRowPerGame
<1>4. k \in EventsOf(g) /\ \A j \in EventsOf(g) : k <= j
  BY <1>2, <1>3
<1>5. (CHOOSE i \in EventsOf(g) : \A j \in EventsOf(g) : i <= j) \in EventsOf(g)
  BY <1>4
<1> QED BY <1>1, <1>3, <1>5 DEF First, Recorded

\* Within the history a tracked game has one request.
LEMMA OneRequestPerGame ==
    ASSUME OneRowPerGame, NEW r \in Recorded, NEW s \in Recorded,
           GameOf[r] = GameOf[s], GameOf[r] # NoGame
    PROVE  r = s
BY DEF OneRowPerGame, Recorded

\* A game without rows has no request in the history, and the other way round.
LEMMA NoRows ==
    ASSUME NEW g, g # NoGame
    PROVE  EventsOf(g) = {} <=> \A s \in Recorded : GameOf[s] # g
BY DEF EventsOf, Recorded

-----------------------------------------------------------------------------
(* Preservation *)

\* Nothing has happened yet.
THEOREM InitInvariant == Init => IInv
<1> SUFFICES ASSUME Init PROVE IInv
  OBVIOUS
<1>1. TypeOK
  BY EmptySeq DEF Init, TypeOK, Steps
<1>2. Recorded = {} /\ DOMAIN events = {}
  BY EmptySeq, LenProperties DEF Init, Recorded
<1>3. None \notin Payloads
  BY GameFinishAssumption DEF Payloads
<1>4. OneRowPerGame /\ ClosedGamesRecorded
  BY <1>2 DEF OneRowPerGame, ClosedGamesRecorded, Init
<1>5. Journey /\ Derived /\ AnswersBuilt
  BY <1>2, <1>3 DEF Journey, Derived, AnswersBuilt, Init
<1> QED BY <1>1, <1>4, <1>5 DEF IInv

\* Serving the stored answer of the game's first row.
LEMMA ReplayKeeps ==
    ASSUME IInv, NEW r \in Requests, pc[r] \in {"new", "fresh"},
           EventsOf(GameOf[r]) # {}, Replay(r)
    PROVE  IInv'
<1> DEFINE e == First(GameOf[r])
<1> USE DEF IInv
<1>1. e \in Recorded /\ GameOf[e] = GameOf[r] /\ GameOf[r] # NoGame
  BY FirstIsRecorded
<1>2. e \in Requests
  BY <1>1 DEF Recorded, TypeOK
<1>3. Recorded' = Recorded /\ \A g : EventsOf(g)' = EventsOf(g)
  BY DEF Replay, Recorded, EventsOf
<1>4. Stored(e) \in Replies
  BY <1>2 DEF Stored, TypeOK, Replies
<1>5. TypeOK'
  BY <1>4 DEF TypeOK, Replay, GoTo, Steps
<1>6. OneRowPerGame' /\ Derived' /\ ClosedGamesRecorded'
  BY <1>3 DEF Replay, OneRowPerGame, Derived, ClosedGamesRecorded
<1>7. Journey'
  BY <1>3 DEF Replay, GoTo, Journey, TypeOK
<1>8. Stored(e) \in Payloads => Stored(e) = outcome[e]
  <2>1. Pending(e) \notin Payloads
    BY DEF Pending, Payloads
  <2> QED BY <1>2, <2>1 DEF Stored, Derived
<1>9. AnswersBuilt'
  <2> SUFFICES ASSUME NEW q \in Requests, GameOf[q] # NoGame, reply'[q] \in Payloads
               PROVE  \E s \in Recorded : GameOf[s] = GameOf[q] /\ reply'[q] = outcome[s]
    BY <1>3 DEF AnswersBuilt, Replay
  <2>1. CASE q = r
    <3>1. reply'[q] = Stored(e)
      BY <2>1 DEF Replay, TypeOK
    <3> QED BY <1>1, <1>8, <2>1, <3>1
  <2>2. CASE q # r
    <3>1. reply'[q] = reply[q]
      BY <2>2 DEF Replay, TypeOK
    <3> QED BY <3>1 DEF AnswersBuilt
  <2> QED BY <2>1, <2>2
<1> QED BY <1>5, <1>6, <1>7, <1>9

\* A new row, of a game that has none.
LEMMA NewRowKeeps ==
    ASSUME IInv, NEW r \in Requests, Insert(r), EventsOf(GameOf[r]) = {}
    PROVE  IInv'
<1> USE DEF IInv
<1>1. /\ pc[r] = "fresh"
      /\ events' = Append(events, r)
      /\ pc' = [pc EXCEPT ![r] = "stored"]
      /\ UNCHANGED <<results, closed, rating, applied, loaded, outcome, reply>>
  BY DEF Insert, GoTo
<1>2. /\ events' \in Seq(Requests)
      /\ DOMAIN events = 1 .. Len(events) /\ Len(events) \in Nat
      /\ DOMAIN events' = 1 .. Len(events) + 1
      /\ \A i \in DOMAIN events : events'[i] = events[i]
      /\ events'[Len(events) + 1] = r
      /\ Recorded' = Recorded \union {r}
      /\ \A g : EventsOf(g) \subseteq EventsOf(g)'
  BY <1>1, HistoryGrows
<1>3. TypeOK'
  BY <1>1, <1>2 DEF TypeOK, Steps
<1>4. OneRowPerGame'
  <2>1. \A i \in DOMAIN events : GameOf[r] # NoGame => GameOf[events[i]] # GameOf[r]
    BY DEF EventsOf
  <2>2. \A i \in DOMAIN events' : i \in DOMAIN events \/ i = Len(events) + 1
    BY <1>2
  <2> QED BY <1>2, <2>1, <2>2 DEF OneRowPerGame
<1>5. r \notin Recorded /\ r \notin applied /\ outcome[r] = None
  BY <1>1 DEF Journey, Derived
<1>6. Journey'
  <2> SUFFICES ASSUME NEW q \in Requests
               PROVE  /\ pc'[q] \in {"new", "fresh"} => q \notin Recorded'
                      /\ pc'[q] \in {"stored", "closing", "rating", "rated", "recorded"}
                            => q \in Recorded'
                      /\ pc'[q] \in {"stored", "closing", "rating"} => q \notin applied'
                      /\ pc'[q] = "closing" => GameOf[q] # NoGame
                      /\ pc'[q] = "recorded" => outcome'[q] # None
                      /\ outcome'[q] # None =>
                           pc'[q] \in {"recorded", "replied", "stopped"} /\ q \in Recorded'
    BY DEF Journey
  <2>1. CASE q = r
    BY <1>1, <1>2, <1>5, <2>1 DEF TypeOK
  <2>2. CASE q # r
    BY <1>1, <1>2, <2>2 DEF TypeOK, Journey
  <2> QED BY <2>1, <2>2
<1>7. Derived' /\ AnswersBuilt'
  BY <1>1, <1>2 DEF Derived, AnswersBuilt
<1>8. ClosedGamesRecorded'
  BY <1>1, <1>2 DEF ClosedGamesRecorded
<1> QED BY <1>3, <1>4, <1>6, <1>7, <1>8

\* The steps between the insert and the answer, and a stop.
LEMMA LaterStepKeeps ==
    ASSUME IInv, NEW r \in Requests,
           \/ Reload(r) \/ ApplySkill(r) \/ SkillFails(r) \/ Record(r) \/ Stop(r)
           \/ \E done \in BOOLEAN : CloseGame(r, done) \/ Persist(r, done)
           \/ pc[r] = "new" /\ GoTo(r, "fresh")
              /\ UNCHANGED <<events, results, closed, rating, applied, loaded, outcome, reply>>
    PROVE  IInv'
<1> USE DEF IInv
<1>1. events' = events /\ Recorded' = Recorded /\ \A g : EventsOf(g)' = EventsOf(g)
  BY DEF Reload, ApplySkill, SkillFails, Record, Stop, CloseGame, Persist, Recorded, EventsOf
<1>2. None \notin Payloads
  BY GameFinishAssumption DEF Payloads
<1>3. TypeOK'
  <2>1. CASE Reload(r)
    BY <2>1 DEF Reload, GoTo, TypeOK, Steps
  <2>2. CASE ApplySkill(r) \/ SkillFails(r) \/ Stop(r)
    BY <2>2 DEF ApplySkill, SkillFails, Stop, GoTo, TypeOK, Steps
  <2>3. CASE Record(r)
    <3>1. [event |-> r, rating |-> rating] \in Payloads
      BY DEF Payloads, TypeOK
    <3> QED BY <2>3, <3>1 DEF Record, GoTo, TypeOK, Steps
  <2>4. ASSUME NEW done \in BOOLEAN, CloseGame(r, done) PROVE TypeOK'
    <3>1. GameOf[r] \in Games
      BY <2>4 DEF CloseGame, Journey, Games
    <3> QED BY <2>4, <3>1 DEF CloseGame, GoTo, TypeOK, Steps
  <2>5. ASSUME NEW done \in BOOLEAN, Persist(r, done) PROVE TypeOK'
    <3>1. outcome[r] \in Payloads
      BY <2>5 DEF Persist, Journey, TypeOK
    <3> QED BY <2>5, <3>1 DEF Persist, GoTo, TypeOK, Steps, Replies
  <2>6. CASE /\ pc[r] = "new" /\ GoTo(r, "fresh")
             /\ UNCHANGED <<events, results, closed, rating, applied, loaded, outcome, reply>>
    BY <2>6 DEF GoTo, TypeOK, Steps
  <2> QED BY <2>1, <2>2, <2>3, <2>4, <2>5, <2>6
<1>4. OneRowPerGame'
  BY <1>1 DEF OneRowPerGame
<1>5. Journey'
  BY <1>1, <1>2 DEF Journey, GoTo, Reload, ApplySkill, SkillFails, Record, Stop, CloseGame,
         Persist, TypeOK, Payloads
<1>6. Derived'
  BY <1>1 DEF Derived, Journey, GoTo, Reload, ApplySkill, SkillFails, Record, Stop,
         CloseGame, Persist, TypeOK
<1>7. AnswersBuilt'
  <2>1. CASE Record(r)
    <3>1. outcome[r] = None /\ reply' = reply
          /\ \A q \in Requests : q # r => outcome'[q] = outcome[q]
      BY <2>1 DEF Record, Journey, TypeOK
    <3>2. Recorded \subseteq Requests
      BY DEF Recorded, TypeOK
    <3> QED BY <1>1, <1>2, <3>1, <3>2 DEF AnswersBuilt
  <2>2. ASSUME NEW done \in BOOLEAN, Persist(r, done) PROVE AnswersBuilt'
    <3>1. r \in Recorded /\ outcome' = outcome
      BY <2>2 DEF Persist, Journey
    <3>2. \A q \in Requests : reply'[q] = IF q = r THEN outcome[r] ELSE reply[q]
      BY <2>2 DEF Persist, TypeOK
    <3> QED BY <1>1, <3>1, <3>2 DEF AnswersBuilt
  <2>3. CASE reply' = reply /\ outcome' = outcome
    BY <1>1, <2>3 DEF AnswersBuilt
  <2> QED BY <2>1, <2>2, <2>3 DEF Reload, ApplySkill, SkillFails, Stop, CloseGame
<1>8. ClosedGamesRecorded'
  BY <1>1 DEF ClosedGamesRecorded, Journey, GoTo, Reload, ApplySkill, SkillFails, Record,
         Stop, CloseGame, Persist, TypeOK, EventsOf, Recorded
<1> QED BY <1>3, <1>4, <1>5, <1>6, <1>7, <1>8

\* A step of a request keeps the invariant: it replays, adds a row, or moves on.
LEMMA NextInvariant == IInv /\ [Next]_vars => IInv'
<1> SUFFICES ASSUME IInv, [Next]_vars PROVE IInv'
  OBVIOUS
<1>1. CASE UNCHANGED vars
  BY <1>1 DEF vars, IInv, TypeOK, OneRowPerGame, Journey, Derived, AnswersBuilt,
              ClosedGamesRecorded, Recorded, EventsOf
<1>2. ASSUME NEW r \in Requests, Guard(r) \/ Insert(r) PROVE IInv'
  <2>1. CASE EventsOf(GameOf[r]) # {}
    BY <1>2, <2>1, ReplayKeeps DEF Guard, Insert
  <2>2. CASE EventsOf(GameOf[r]) = {} /\ Insert(r)
    BY <2>2, NewRowKeeps
  <2>3. CASE EventsOf(GameOf[r]) = {} /\ Guard(r)
    BY <2>3, LaterStepKeeps DEF Guard
  <2> QED BY <1>2, <2>1, <2>2, <2>3
<1>3. ASSUME NEW r \in Requests, Step(r) \/ Stop(r) PROVE IInv'
  BY <1>2, <1>3, LaterStepKeeps DEF Step
<1> QED BY <1>1, <1>3 DEF Next

\* The invariant holds in every reachable state.
THEOREM Invariance == Spec => []IInv
BY InitInvariant, NextInvariant, PTL DEF Spec

-----------------------------------------------------------------------------
(* Safety *)

\* Type correctness of the finish handler, whatever requests overlap or stop.
THEOREM TypeCorrect == Spec => []TypeOK
<1>1. IInv => TypeOK
  BY DEF IInv
<1> QED BY Invariance, <1>1, PTL

\* No closed game is missing from the history.
THEOREM ClosedRecorded == Spec => []ClosedGamesRecorded
<1>1. IInv => ClosedGamesRecorded
  BY DEF IInv
<1> QED BY Invariance, <1>1, PTL

\* Two answers with a result about one game are equal, and what a replay or
\* the status endpoint reads later is that result or "pending".
THEOREM AnswersAgree == Spec => []OneAnswerPerGame
<1>1. IInv => OneAnswerPerGame
  <2> SUFFICES ASSUME IInv, NEW r \in Requests, NEW s \in Requests,
                      GameOf[r] = GameOf[s], GameOf[r] # NoGame, reply[r] \in Payloads
               PROVE  /\ reply[s] \in Payloads => reply[s] = reply[r]
                      /\ s \in Recorded => Stored(s) \in {reply[r], Pending(s)}
    BY DEF OneAnswerPerGame
  <2> USE DEF IInv
  <2>1. PICK e \in Recorded : GameOf[e] = GameOf[r] /\ reply[r] = outcome[e]
    BY DEF AnswersBuilt
  <2>2. reply[s] \in Payloads => reply[s] = reply[r]
    BY <2>1, OneRequestPerGame DEF AnswersBuilt
  <2>3. ASSUME s \in Recorded PROVE Stored(s) \in {reply[r], Pending(s)}
    <3>1. s = e
      BY <2>1, <2>3, OneRequestPerGame
    <3> QED BY <2>1, <3>1 DEF Stored, Derived
  <2> QED BY <2>2, <2>3
<1> QED BY Invariance, <1>1, PTL

-----------------------------------------------------------------------------
(* Refinement *)

\* A set with at most one request of a game counts one or none.
LEMMA TallyOfOne ==
    ASSUME NEW S, NEW g \in Games,
           \A r, s \in S : GameOf[r] = g /\ GameOf[s] = g => r = s
    PROVE  Tally(S)[g] = IF \E r \in S : GameOf[r] = g THEN 1 ELSE 0
<1> DEFINE T == {r \in S : GameOf[r] = g}
<1>1. CASE \E r \in S : GameOf[r] = g
  <2>1. PICK r \in S : GameOf[r] = g
    BY <1>1
  <2>2. T = {r}
    BY <2>1
  <2> QED BY <1>1, <2>2, FS_Singleton DEF Tally
<1>2. CASE ~\E r \in S : GameOf[r] = g
  <2>1. T = {}
    BY <1>2
  <2> QED BY <1>2, <2>1, FS_EmptySet DEF Tally
<1> QED BY <1>1, <1>2

LEMMA InitRefines == Init => Ledger!LedgerInit
<1> SUFFICES ASSUME Init PROVE Ledger!LedgerInit
  OBVIOUS
<1>1. Recorded = {} /\ applied = {}
  BY EmptySeq, LenProperties DEF Init, Recorded
<1>2. Tally({}) = [g \in Games |-> 0]
  BY FS_EmptySet DEF Tally
<1>3. Built = [g \in Games |-> {}]
  BY <1>1 DEF Built
<1> QED BY <1>1, <1>2, <1>3 DEF Ledger!LedgerInit

\* A new row enters a tracked game into the ledger, and leaves the ledger
\* alone when the finish carries no game id.
LEMMA InsertRefines ==
    ASSUME IInv, NEW r \in Requests, Insert(r), EventsOf(GameOf[r]) = {}
    PROVE  [Ledger!LedgerNext]_(Ledger!ledgerVars)
<1> USE DEF IInv
<1>1. /\ Recorded' = Recorded \union {r}
      /\ UNCHANGED <<applied, outcome>>
      /\ outcome[r] = None
  BY HistoryGrows DEF Insert, GoTo, Journey
<1>2. Built' = Built /\ Tally(applied)' = Tally(applied)
      /\ Tally(Recorded)' = Tally(Recorded')
  BY <1>1 DEF Built, Tally
<1>3. ASSUME NEW g \in Games, g # GameOf[r]
      PROVE  Tally(Recorded')[g] = Tally(Recorded)[g]
  <2>1. {q \in Recorded' : GameOf[q] = g} = {q \in Recorded : GameOf[q] = g}
    BY <1>1, <1>3
  <2> QED BY <2>1 DEF Tally
<1>4. CASE GameOf[r] = NoGame
  <2>1. \A g \in Games : g # GameOf[r]
    BY <1>4 DEF Games
  <2>2. Tally(Recorded') = Tally(Recorded)
    BY <1>3, <2>1 DEF Tally
  <2> QED BY <1>2, <2>2 DEF Ledger!ledgerVars
<1>5. CASE GameOf[r] # NoGame
  <2> DEFINE g == GameOf[r]
  <2>1. g \in Games
    BY <1>5 DEF Games
  <2>2. \A q \in Recorded : GameOf[q] # g
    BY <1>5, NoRows
  <2>3. Tally(Recorded)[g] = 0
    BY <2>1, <2>2, TallyOfOne
  <2>4. Tally(Recorded')[g] = 1
    <3>1. \A p, q \in Recorded' : GameOf[p] = g /\ GameOf[q] = g => p = q
      BY <1>1, <2>2
    <3>2. \E q \in Recorded' : GameOf[q] = g
      BY <1>1
    <3> QED BY <2>1, <3>1, <3>2, TallyOfOne
  <2>5. Tally(Recorded') = [Tally(Recorded) EXCEPT ![g] = 1]
    BY <1>3, <2>1, <2>4 DEF Tally
  <2>6. Ledger!Enter(g)
    BY <1>2, <2>3, <2>5 DEF Ledger!Enter
  <2> QED BY <2>1, <2>6 DEF Ledger!LedgerNext
<1> QED BY <1>4, <1>5

\* The rating transaction rates a recorded game that was not rated before.
LEMMA ApplySkillRefines ==
    ASSUME IInv, NEW r \in Requests, ApplySkill(r)
    PROVE  [Ledger!LedgerNext]_(Ledger!ledgerVars)
<1> USE DEF IInv
<1>1. /\ applied' = applied \union {r} /\ r \notin applied
      /\ r \in Recorded /\ applied \subseteq Recorded
      /\ UNCHANGED <<events, outcome>>
  BY DEF ApplySkill, Journey, Derived
<1>2. Recorded' = Recorded /\ Built' = Built /\ Tally(applied)' = Tally(applied')
      /\ Tally(Recorded)' = Tally(Recorded)
  BY <1>1 DEF Recorded, Built, Tally
<1>3. ASSUME NEW g \in Games, g # GameOf[r]
      PROVE  Tally(applied')[g] = Tally(applied)[g]
  <2>1. {q \in applied' : GameOf[q] = g} = {q \in applied : GameOf[q] = g}
    BY <1>1, <1>3
  <2> QED BY <2>1 DEF Tally
<1>4. CASE GameOf[r] = NoGame
  <2>1. \A g \in Games : g # GameOf[r]
    BY <1>4 DEF Games
  <2>2. Tally(applied') = Tally(applied)
    BY <1>3, <2>1 DEF Tally
  <2> QED BY <1>2, <2>2 DEF Ledger!ledgerVars
<1>5. CASE GameOf[r] # NoGame
  <2> DEFINE g == GameOf[r]
  <2>1. g \in Games
    BY <1>5 DEF Games
  <2>2. \A q \in Recorded : GameOf[q] = g => q = r
    BY <1>1, <1>5, OneRequestPerGame
  <2>3. Tally(applied)[g] = 0
    BY <1>1, <2>1, <2>2, TallyOfOne
  <2>4. Tally(applied')[g] = 1
    BY <1>1, <2>1, <2>2, TallyOfOne
  <2>5. Tally(Recorded)[g] = 1
    BY <1>1, <2>1, <2>2, TallyOfOne
  <2>6. Tally(applied') = [Tally(applied) EXCEPT ![g] = 1]
    BY <1>3, <2>1, <2>4 DEF Tally
  <2>7. Ledger!Rate(g)
    BY <1>2, <2>3, <2>5, <2>6 DEF Ledger!Rate
  <2> QED BY <2>1, <2>7 DEF Ledger!LedgerNext
<1> QED BY <1>4, <1>5

\* Building the response settles the game's one answer.
LEMMA RecordRefines ==
    ASSUME IInv, NEW r \in Requests, Record(r)
    PROVE  [Ledger!LedgerNext]_(Ledger!ledgerVars)
<1> USE DEF IInv
<1>1. /\ r \in Recorded /\ outcome[r] = None
      /\ UNCHANGED <<events, applied>>
      /\ \A q \in Requests : q # r => outcome'[q] = outcome[q]
  BY DEF Record, Journey, TypeOK
<1>2. Recorded' = Recorded /\ Recorded \subseteq Requests
      /\ Tally(applied)' = Tally(applied) /\ Tally(Recorded)' = Tally(Recorded)
  BY <1>1 DEF Recorded, Tally, TypeOK
<1>3. ASSUME NEW g \in Games, g # GameOf[r]
      PROVE  Built'[g] = Built[g]
  BY <1>1, <1>2, <1>3 DEF Built
<1>4. CASE GameOf[r] = NoGame
  <2>1. \A g \in Games : g # GameOf[r]
    BY <1>4 DEF Games
  <2>2. Built' = Built
    BY <1>3, <2>1 DEF Built
  <2> QED BY <1>2, <2>2 DEF Ledger!ledgerVars
<1>5. CASE GameOf[r] # NoGame
  <2> DEFINE g == GameOf[r]
  <2>1. g \in Games
    BY <1>5 DEF Games
  <2>2. \A q \in Recorded : GameOf[q] = g => q = r
    BY <1>1, <1>5, OneRequestPerGame
  <2>3. Tally(Recorded)[g] = 1
    BY <1>1, <2>1, <2>2, TallyOfOne
  <2>4. Built[g] = {}
    BY <1>1, <2>1, <2>2 DEF Built
  <2>5. Built' = [Built EXCEPT ![g] = Built'[g]]
    BY <1>3, <2>1 DEF Built
  <2>6. Ledger!Settle(g)
    BY <1>2, <2>3, <2>4, <2>5 DEF Ledger!Settle
  <2> QED BY <2>1, <2>6 DEF Ledger!LedgerNext
<1> QED BY <1>4, <1>5

\* The finish handler, with its retries, losers of the insert race, failing
\* best-effort steps and stops, is an exactly-once ledger of games.
THEOREM FinishRefinesLedger == Spec => ImplementsLedger
<1>1. IInv /\ [Next]_vars => [Ledger!LedgerNext]_(Ledger!ledgerVars)
  <2> SUFFICES ASSUME IInv, [Next]_vars
               PROVE  [Ledger!LedgerNext]_(Ledger!ledgerVars)
    OBVIOUS
  <2>1. ASSUME UNCHANGED <<events, applied, outcome>>
        PROVE  UNCHANGED Ledger!ledgerVars
    BY <2>1 DEF Recorded, Built, Tally, Ledger!ledgerVars
  <2>2. CASE UNCHANGED vars
    BY <2>1, <2>2 DEF vars
  <2>3. ASSUME NEW r \in Requests, Step(r) \/ Stop(r)
        PROVE  [Ledger!LedgerNext]_(Ledger!ledgerVars)
    <3>1. CASE Insert(r)
      BY <2>1, <3>1, InsertRefines DEF Insert, Replay
    <3>2. CASE ApplySkill(r) \/ Record(r)
      BY <3>2, ApplySkillRefines, RecordRefines
    <3>3. CASE \/ Guard(r) \/ Reload(r) \/ SkillFails(r) \/ Stop(r)
               \/ \E done \in BOOLEAN : CloseGame(r, done) \/ Persist(r, done)
      BY <2>1, <3>3 DEF Guard, Replay, Reload, SkillFails, Stop, CloseGame, Persist
    <3> QED BY <2>3, <3>1, <3>2, <3>3 DEF Step
  <2> QED BY <2>2, <2>3 DEF Next
<1> QED BY InitRefines, <1>1, Invariance, PTL DEF Spec, ImplementsLedger, Ledger!LedgerSpec

\* All that the run checks of a finish attempt's answers and rows, for every set of
\* requests and retries.
THEOREM FinishIsSafe == Spec => []FinishSafe
BY TypeCorrect, AnswersAgree, ClosedRecorded, PTL DEF FinishSafe

-----------------------------------------------------------------------------
(* Numbers: what induction over a recursive function needs *)

\* A set of numbers has a least one.
LEMMA LeastOf == ASSUME NEW S \in SUBSET Nat, S # {} PROVE \E m \in S : \A n \in S : m <= n
<1>1. PICK m \in S : \A n \in S : ~(<<n, m>> \in OpToRel(<, Nat))
  BY NatLessThanWellFounded, WFMin
<1>2. \A n \in S : ~(n < m)
  BY <1>1 DEF OpToRel
<1>3. \A n \in S : m \in Nat /\ n \in Nat
  BY <1>1
<1>4. ASSUME NEW n \in S PROVE m <= n
  <2>1. m \in Nat /\ n \in Nat /\ ~(n < m)
    BY <1>2, <1>3, <1>4
  <2> QED BY ONLY <2>1
<1> QED BY <1>1, <1>4

\* Induction over the numbers, without an operator: a least exception would have a
\* predecessor that is none.
LEMMA Induction ==
    ASSUME NEW P, 0 \in P, \A n \in Nat : n \in P => n + 1 \in P
    PROVE  \A n \in Nat : n \in P
<1>1. SUFFICES ASSUME Nat \ P # {} PROVE FALSE
  OBVIOUS
<1>2. PICK m \in Nat \ P : \A n \in Nat \ P : m <= n
  BY <1>1, LeastOf
<1>3. m \in Nat /\ m # 0
  BY <1>2
<1>4. PICK k \in Nat : m = k + 1
  <2>1. m - 1 \in Nat /\ m = (m - 1) + 1
    BY ONLY <1>3
  <2> QED BY <2>1
<1>5. k \notin P
  BY <1>2, <1>4
<1>6. ~(m <= k)
  BY ONLY <1>3, <1>4
<1> QED BY <1>2, <1>4, <1>5, <1>6

\* A function on 0..n is defined by its value at 0 and by what each step makes of the last.
LEMMA Recursion ==
    ASSUME NEW S, NEW a \in S, NEW n \in Nat, NEW F \in [1..n -> [S -> S]]
    PROVE  \E g \in [0..n -> S] : g[0] = a /\ \A i \in 1..n : g[i] = F[i][g[i - 1]]
<1> DEFINE Upto(k, g) == /\ g \in [0..k -> S] /\ g[0] = a
                         /\ \A i \in 1..k : g[i] = F[i][g[i - 1]]
           Reached == {k \in Nat : k <= n => \E g : Upto(k, g)}
<1>1. 0 \in Reached
  <2>1. PICK g : g = [i \in 0..0 |-> a]
    OBVIOUS
  <2>2. Upto(0, g)
    BY <2>1
  <2> QED BY <2>2
<1>2. ASSUME NEW k \in Nat, k \in Reached PROVE k + 1 \in Reached
  <2>1. SUFFICES ASSUME k + 1 <= n PROVE \E g : Upto(k + 1, g)
    OBVIOUS
  <2>2. k <= n /\ k + 1 \in 1..n
    BY <2>1
  <2>3. PICK g : Upto(k, g)
    BY <1>2, <2>2
  <2>4. g[k] \in S /\ F[k + 1] \in [S -> S]
    BY <2>2, <2>3
  <2>5. PICK new : new = [i \in 0..(k + 1) |-> IF i = k + 1 THEN F[k + 1][g[k]] ELSE g[i]]
    OBVIOUS
  <2>6. new \in [0..(k + 1) -> S]
    <3>1. ASSUME NEW i \in 0..(k + 1) PROVE (IF i = k + 1 THEN F[k + 1][g[k]] ELSE g[i]) \in S
      <4>1. CASE i = k + 1
        BY <2>4, <4>1
      <4>2. CASE i # k + 1
        <5>1. i \in 0..k
          BY <4>2
        <5> QED BY <2>3, <4>2, <5>1
      <4> QED BY <4>1, <4>2
    <3> QED BY <2>5, <3>1
  <2>7. new[0] = a
    BY <2>3, <2>5
  <2>8. ASSUME NEW i \in 1..(k + 1) PROVE new[i] = F[i][new[i - 1]]
    <3>1. CASE i = k + 1
      <4>1. i \in 0..(k + 1) /\ i - 1 = k /\ k \in 0..(k + 1) /\ k # k + 1
        BY <3>1
      <4>2. new[i] = F[k + 1][g[k]] /\ new[k] = g[k]
        BY <2>5, <3>1, <4>1
      <4> QED BY <3>1, <4>1, <4>2
    <3>2. CASE i # k + 1
      <4>1. i \in 1..k /\ i \in 0..(k + 1) /\ i - 1 \in 0..(k + 1) /\ i - 1 # k + 1
        BY <3>2
      <4>2. new[i] = g[i] /\ new[i - 1] = g[i - 1]
        BY <2>5, <3>2, <4>1
      <4> QED BY <2>3, <4>1, <4>2
    <3> QED BY <3>1, <3>2
  <2> QED BY <2>6, <2>7, <2>8
<1>3. n \in Reached
  <2> HIDE DEF Reached
  <2> QED BY <1>1, <1>2, Induction
<1> QED BY <1>3

-----------------------------------------------------------------------------
(* The evaluations of a game (GameAnalysis) *)

Scores == -MATE_VALUE_CP..MATE_VALUE_CP

\* Every evaluation is of the game's table, but for the one of a mate, which is
\* the worst of the side to move.
GameInv ==
    /\ side \in {"none", "white", "black"} /\ mated \in BOOLEAN
    /\ side = "none" => table = NoTable /\ series = <<>> /\ ~mated
    /\ side # "none" => table \in Tables /\ series # <<>>
    /\ series \in Seq(Scores)
    /\ \A i \in DOMAIN series : series[i] \in table.cps \/ (mated /\ i = Len(series))
    /\ mated => /\ Len(series) >= 2
                /\ series[Len(series)] =
                      IF WhiteMoves(Len(series)) THEN -MATE_VALUE_CP ELSE MATE_VALUE_CP

LEMMA TableScores ==
    ASSUME NEW t \in Tables
    PROVE  t.start \in t.cps /\ t.cps \subseteq Scores
BY GameAnalysisAssumption DEF Scores

LEMMA BeginKeeps ==
    ASSUME GameInv, Begin
    PROVE  GameInv'
<1>1. /\ side' \in {"white", "black"} /\ side' # "none" /\ table' \in Tables
      /\ mated' = FALSE /\ series' = <<table'.start>>
  BY DEF GameInv, Begin, EvaluateCp
<1>2. table'.start \in table'.cps /\ table'.start \in Scores
  BY <1>1, TableScores
<1>3. series' \in Seq(Scores) /\ DOMAIN series' = {1} /\ series'[1] = table'.start /\ series' # <<>>
  BY <1>1, <1>2
<1> QED BY <1>1, <1>2, <1>3 DEF GameInv

\* A ply: one evaluation more.
LEMMA PlyKeeps ==
    ASSUME GameInv, side # "none", ~mated, NEW e \in Scores, series' = Append(series, e),
           UNCHANGED <<side, table>>, mated' \in BOOLEAN,
           ~mated' => e \in table.cps,
           mated' => e = IF WhiteMoves(Len(series) + 1) THEN -MATE_VALUE_CP ELSE MATE_VALUE_CP
    PROVE  GameInv'
<1>1. PICK n \in Nat : n = Len(series) /\ DOMAIN series = 1..n
  BY LenProperties DEF GameInv
<1>2. n >= 1
  <2>1. n # 0
    BY <1>1, EmptySeq DEF GameInv
  <2> QED BY ONLY <1>1, <2>1
<1>3. /\ series' \in Seq(Scores) /\ Len(series') = n + 1 /\ series'[n + 1] = e
      /\ \A i \in 1..n : series'[i] = series[i]
  BY <1>1, AppendProperties DEF GameInv
<1>4. DOMAIN series' = 1..(n + 1) /\ series' # <<>>
  <2>1. DOMAIN series' = 1..(n + 1)
    BY <1>3, LenProperties
  <2>2. Len(series') # 0
    BY ONLY <1>1, <1>3
  <2> QED BY <1>3, <2>1, <2>2, EmptySeq
<1>5. ASSUME NEW i \in 1..(n + 1) PROVE series'[i] \in table.cps \/ (mated' /\ i = n + 1)
  <2>1. CASE i = n + 1
    BY <1>3, <2>1
  <2>2. CASE i # n + 1
    <3>1. i \in 1..n
      BY <2>2
    <3> QED BY <1>1, <1>3, <3>1 DEF GameInv
  <2> QED BY <2>1, <2>2
<1>6. mated' => Len(series') >= 2 /\ series'[Len(series')] =
                    IF WhiteMoves(Len(series')) THEN -MATE_VALUE_CP ELSE MATE_VALUE_CP
  <2>1. n + 1 >= 2
    BY ONLY <1>1, <1>2
  <2> QED BY <1>1, <1>3, <2>1
<1> QED BY <1>3, <1>4, <1>5, <1>6 DEF GameInv

LEMMA PlayPlyKeeps ==
    ASSUME GameInv, PlayPly
    PROVE  GameInv'
<1>1. PICK cp \in table.cps : Evaluate("cp", cp)
  BY DEF PlayPly
<1>2. /\ side # "none" /\ ~mated /\ mated' = mated /\ UNCHANGED <<side, table>>
      /\ series' = Append(series, cp)
  BY <1>1 DEF Evaluate, PlayPly, EvaluateCp
<1>4. mated' \in BOOLEAN /\ ~mated'
  BY <1>2 DEF GameInv
<1>3. cp \in Scores
  BY <1>2, TableScores DEF GameInv
<1> QED BY <1>2, <1>3, <1>4, PlyKeeps

LEMMA GiveMateKeeps ==
    ASSUME GameInv, GiveMate
    PROVE  GameInv'
<1>1. PICK e : e = IF WhiteMoves(Len(series) + 1) THEN -MATE_VALUE_CP ELSE MATE_VALUE_CP
  OBVIOUS
<1>2. e \in Scores
  BY <1>1 DEF Scores, MATE_VALUE_CP
<1>3. EvaluateCp("mate", 0, WhiteMoves(Len(series) + 1)) = e
  BY <1>1 DEF EvaluateCp
<1>4. /\ side # "none" /\ ~mated /\ mated' = TRUE /\ UNCHANGED <<side, table>>
      /\ series' = Append(series, e)
  BY <1>3 DEF GiveMate, Evaluate
<1> QED BY <1>1, <1>2, <1>4, PlyKeeps

LEMMA GameStarts == GameInit => GameInv
<1>1. <<>> \in Seq(Scores) /\ DOMAIN <<>> = {}
  OBVIOUS
<1> QED BY <1>1 DEF GameInit, GameInv

\* pgn_accuracy.py: the evaluations of a game are of its table, and a mate is scored
\* against the side to move.
THEOREM GameInvariance == GameSpec => []GameInv
<1>1. GameInv /\ [GameNext]_gameVars => GameInv'
  <2>1. GameInv /\ UNCHANGED gameVars => GameInv'
    BY DEF gameVars, GameInv, WhiteMoves
  <2> QED BY <2>1, BeginKeeps, PlayPlyKeeps, GiveMateKeeps DEF GameNext
<1> QED BY <1>1, GameStarts, PTL DEF GameSpec

-----------------------------------------------------------------------------
(* Losses, errors and mistakes *)

LEMMA ScoreRange ==
    ASSUME NEW e \in Scores
    PROVE  e \in Int /\ -e \in Scores /\ e <= MATE_VALUE_CP
<1>1. PICK m \in Nat : m = MATE_VALUE_CP
  BY DEF MATE_VALUE_CP
<1>2. Scores = -m..m
  BY <1>1 DEF Scores
<1>3. e \in Int /\ -m <= e /\ e <= m
  BY <1>2
<1>4. -e \in Int /\ -m <= -e /\ -e <= m
  BY ONLY <1>1, <1>3
<1> QED BY <1>1, <1>2, <1>3, <1>4

LEMMA PlyEvals ==
    ASSUME GameInv, NEW ply \in Plies
    PROVE  /\ ply \in Nat /\ ply >= 1 /\ side \in {"white", "black"}
           /\ Eval(ply) \in Scores /\ Eval(ply - 1) \in Scores
           /\ ply # 1 => Eval(ply - 2) \in Scores
<1>1. PICK n \in Nat : n = Len(series) /\ DOMAIN series = 1..n
  BY LenProperties DEF GameInv
<1>2. ply \in 1..(n - 1)
  BY <1>1 DEF Plies
<1>3. /\ ply \in Nat /\ ply >= 1 /\ ply + 1 \in 1..n /\ (ply - 1) + 1 \in 1..n
      /\ ply # 1 => (ply - 2) + 1 \in 1..n
  BY <1>2
<1>4. \A i \in 1..n : series[i] \in Scores
  BY <1>1, ElementOfSeq DEF GameInv
<1>5. side # "none"
  <2>1. SUFFICES ASSUME side = "none" PROVE FALSE
    OBVIOUS
  <2>2. Len(series) = 0
    BY <2>1, EmptySeq DEF GameInv
  <2> QED BY ONLY <1>1, <1>2, <2>2
<1> QED BY <1>3, <1>4, <1>5 DEF Eval, GameInv

\* The producers of losses take the difference from White's side or the player's.
LEMMA Losses ==
    ASSUME GameInv, NEW ply \in MyPlies
    PROVE  /\ BeforePov(ply) \in Scores /\ AfterPov(ply) \in Scores /\ OppPriorSwing(ply) \in Int
           /\ RecordLoss(ply) = LossCp(ply) /\ LossCp(ply) \in Nat
           /\ LossCp(ply) = IF BeforePov(ply) > AfterPov(ply) THEN BeforePov(ply) - AfterPov(ply) ELSE 0
<1>1. ply \in Plies
  BY DEF MyPlies
<1>2. PICK before \in Int, after \in Int :
          before = Eval(ply - 1) /\ after = Eval(ply) /\ before \in Scores /\ after \in Scores
  <2>1. Eval(ply - 1) \in Scores /\ Eval(ply) \in Scores
    BY <1>1, PlyEvals
  <2> QED BY <2>1, ScoreRange
<1>3. OppPriorSwing(ply) \in Int
  <2>1. CASE ply = 1
    BY <2>1 DEF OppPriorSwing
  <2>2. CASE ply # 1
    <3>1. PICK earlier \in Int : earlier = Eval(ply - 2)
      <4>1. Eval(ply - 2) \in Scores
        BY <1>1, <2>2, PlyEvals
      <4> QED BY <4>1, ScoreRange
    <3>2. OppPriorSwing(ply) = Sign * (before - earlier)
      BY <1>2, <2>2, <3>1 DEF OppPriorSwing
    <3> QED BY <3>1, <3>2 DEF Sign
  <2> QED BY <2>1, <2>2
<1>4. CASE side = "white"
  <2>1. BeforePov(ply) = before /\ AfterPov(ply) = after
    BY <1>2, <1>4 DEF BeforePov, AfterPov, Sign
  <2>2. LossCp(ply) = MaxZero(before - after)
    BY <1>2, <1>4 DEF LossCp
  <2> QED BY <1>2, <1>3, <2>1, <2>2 DEF RecordLoss, MaxZero
<1>5. CASE side # "white"
  <2>1. BeforePov(ply) = -before /\ AfterPov(ply) = -after
    BY <1>2, <1>5 DEF BeforePov, AfterPov, Sign
  <2>2. LossCp(ply) = MaxZero(after - before)
    BY <1>2, <1>5 DEF LossCp
  <2>3. -before \in Scores /\ -after \in Scores /\ (-before) - (-after) = after - before
    <3>1. -before \in Scores /\ -after \in Scores
      BY <1>2, ScoreRange
    <3>2. (-before) - (-after) = after - before
      BY <1>2
    <3> QED BY <3>1, <3>2
  <2>4. RecordLoss(ply) = MaxZero(after - before)
    BY <2>1, <2>3 DEF RecordLoss
  <2>5. MaxZero(after - before) = IF -before > -after THEN (-before) - (-after) ELSE 0
    BY <1>2 DEF MaxZero
  <2>6. MaxZero(after - before) \in Nat
    BY <1>2 DEF MaxZero
  <2> QED BY <1>3, <2>1, <2>2, <2>3, <2>4, <2>5, <2>6
<1> QED BY <1>4, <1>5

LEMMA FinitelyMany == ASSUME GameInv PROVE IsFiniteSet(MyPlies) /\ MyPlies \subseteq Nat
<1>1. PICK n \in Nat : n = Len(series)
  BY LenProperties DEF GameInv
<1>2. IsFiniteSet(1..(n - 1))
  <2>1. 1 \in Int /\ n - 1 \in Int
    BY <1>1
  <2> QED BY ONLY <2>1, FS_Interval
<1>3. MyPlies \in SUBSET (1..(n - 1))
  BY <1>1 DEF MyPlies, Plies
<1>4. 1..(n - 1) \subseteq Nat
  BY <1>1
<1> QED BY <1>2, <1>3, <1>4, FS_Subset

LEMMA MatesAreNoErrors == ASSUME GameInv PROVE MatingMoveNoError
<1>1. PICK n \in Nat : n = Len(series)
  BY LenProperties DEF GameInv
<1>2. SUFFICES ASSUME mated, Mine(n - 1), n - 1 \in MyPlies
               PROVE  LossCp(n - 1) = 0 /\ ~(AfterPov(n - 1) <= -LOSING)
  BY <1>1 DEF MatingMoveNoError, Trips, Blunders, TransitionTrip, MISTAKE, BLUNDER
<1>3. PICK last \in Nat : last = n - 1 /\ last + 1 = n
  <2>1. n >= 2
    BY <1>1, <1>2 DEF GameInv
  <2>2. n - 1 \in Nat /\ (n - 1) + 1 = n
    BY ONLY <1>1, <2>1
  <2> QED BY <2>2
<1>4. Eval(last) = IF WhiteMoves(n) THEN -MATE_VALUE_CP ELSE MATE_VALUE_CP
  BY <1>1, <1>2, <1>3 DEF GameInv, Eval
<1>5. WhiteMoves(n) <=> ~WhiteMoves(last)
  BY <1>3 DEF WhiteMoves
<1>6. WhiteMoves(last) <=> side = "white"
  BY <1>2, <1>3 DEF Mine
<1>7. AfterPov(last) = MATE_VALUE_CP
  BY <1>4, <1>5, <1>6 DEF AfterPov, Sign, MATE_VALUE_CP
<1>8. BeforePov(last) \in Scores /\ LossCp(last) =
          IF BeforePov(last) > AfterPov(last) THEN BeforePov(last) - AfterPov(last) ELSE 0
  BY <1>2, <1>3, Losses
<1>9. PICK before \in Int : before = BeforePov(last) /\ before <= MATE_VALUE_CP
  BY <1>8, ScoreRange
<1>10. LossCp(last) = 0
  <2>1. ~(before > MATE_VALUE_CP)
    BY ONLY <1>9 DEF MATE_VALUE_CP
  <2> QED BY <1>7, <1>8, <1>9, <2>1
<1>11. ~(MATE_VALUE_CP <= -LOSING)
  BY DEF MATE_VALUE_CP, LOSING
<1> QED BY <1>3, <1>7, <1>10, <1>11

\* A slide crosses the line somewhere, first at the least ply behind it.
LEMMA SlidesAreNoticed == ASSUME GameInv PROVE SlideIsNoticed
<1> DEFINE Pov(ply) == Sign * Eval(ply)
<1>1. SUFFICES ASSUME Plies # {}, Pov(0) > -LOSING, Pov(Len(series) - 1) <= -LOSING,
                      \A ply \in Plies \ MyPlies : ~(Pov(ply - 1) > -LOSING /\ Pov(ply) <= -LOSING)
               PROVE  FirstMistake # 0
  BY DEF SlideIsNoticed
<1>2. PICK n \in Nat : n = Len(series) /\ n - 1 \in Plies /\ Plies = 1..(n - 1)
  <2>1. PICK n \in Nat : n = Len(series)
    BY LenProperties DEF GameInv
  <2> QED BY <1>1, <2>1 DEF Plies
<1>3. PICK S : S = {ply \in Plies : Pov(ply) <= -LOSING}
  OBVIOUS
<1>4. S \in SUBSET Nat /\ S # {}
  BY <1>1, <1>2, <1>3
<1>5. PICK ply \in S : \A k \in S : ply <= k
  BY <1>4, LeastOf
<1>6. ply \in Plies /\ Pov(ply) <= -LOSING
  BY <1>3, <1>5
<1>7. Pov(ply - 1) > -LOSING
  <2>1. CASE ply = 1
    BY <1>1, <2>1
  <2>2. CASE ply # 1
    <3>1. PICK k \in Plies : k = ply - 1 /\ ~(ply <= k)
      <4>1. ply - 1 \in 1..(n - 1) /\ ~(ply <= ply - 1)
        BY <1>2, <1>6, <2>2
      <4> QED BY <1>2, <4>1
    <3>2. ~(Pov(k) <= -LOSING)
      BY <1>3, <1>5, <3>1
    <3>3. Pov(k) \in Int
      <4>1. PICK e \in Int : e = Eval(k)
        BY <3>1, PlyEvals, ScoreRange
      <4> QED BY <4>1 DEF Sign
    <3>4. Pov(k) > -LOSING
      <4>1. PICK p \in Int : p = Pov(k)
        BY <3>3
      <4> QED BY <3>2, <4>1 DEF LOSING
    <3> QED BY <3>1, <3>4
  <2> QED BY <2>1, <2>2
<1>8. ply \in MyPlies
  BY <1>1, <1>6, <1>7
<1>9. ply \in Trips
  BY <1>6, <1>7, <1>8 DEF Trips, TransitionTrip, BeforePov, AfterPov
<1>10. Trips \in SUBSET Nat /\ 0 \notin Trips
  BY <1>2 DEF Trips, MyPlies
<1>11. PICK m \in Trips : \A k \in Trips : m <= k
  BY <1>9, <1>10, LeastOf
<1>12. Min(Trips) \in Trips
  BY <1>11 DEF Min
<1> QED BY <1>9, <1>10, <1>12 DEF FirstMistake

LEMMA TwoParts ==
    ASSUME NEW S, NEW T, IsFiniteSet(S), IsFiniteSet(T), S \intersect T = {}
    PROVE  /\ IsFiniteSet(S \union T)
           /\ Cardinality(S \union T) = Cardinality(S) + Cardinality(T)
<1>1. PICK s \in Nat, t \in Nat : s = Cardinality(S) /\ t = Cardinality(T)
  BY FS_CardinalityType
<1>2. /\ IsFiniteSet(S \union T)
      /\ Cardinality(S \union T) = Cardinality(S) + Cardinality(T) - Cardinality(S \intersect T)
  BY FS_Union
<1>3. Cardinality(S \union T) = s + t - 0
  BY <1>1, <1>2, FS_EmptySet
<1> QED BY <1>1, <1>2, <1>3

Errors == {ply \in MyPlies : LossCp(ply) >= MISTAKE}
ErrorsIn(phase) == {ply \in MyPlies : Phase(ply) = phase /\ LossCp(ply) >= MISTAKE}

LEMMA ErrorsAddUp ==
    ASSUME GameInv
    PROVE  /\ IsFiniteSet(Errors)
           /\ Cardinality(Errors) = Summary.blunders + Summary.mistakes
<1>1. /\ IsFiniteSet(Blunders) /\ IsFiniteSet(LossBetween(MISTAKE, BLUNDER))
  BY FinitelyMany, FS_Subset DEF Blunders, LossBetween
<1>2. ASSUME NEW ply \in MyPlies
      PROVE  /\ LossCp(ply) >= MISTAKE <=>
                    LossCp(ply) >= BLUNDER \/ (LossCp(ply) >= MISTAKE /\ LossCp(ply) < BLUNDER)
             /\ ~(LossCp(ply) >= BLUNDER /\ LossCp(ply) < BLUNDER)
  <2>1. PICK loss \in Nat : loss = LossCp(ply)
    BY Losses
  <2> QED BY <2>1 DEF MISTAKE, BLUNDER
<1>3. Errors = Blunders \union LossBetween(MISTAKE, BLUNDER)
  BY <1>2 DEF Errors, Blunders, LossBetween
<1>4. Blunders \intersect LossBetween(MISTAKE, BLUNDER) = {}
  BY <1>2 DEF Blunders, LossBetween
<1>5. /\ Summary.blunders = Cardinality(Blunders)
      /\ Summary.mistakes = Cardinality(LossBetween(MISTAKE, BLUNDER))
  BY DEF Summary
<1> QED BY <1>1, <1>3, <1>4, <1>5, TwoParts

\* A phase answers for the errors made in it, of which there may be none.
LEMMA Shares ==
    ASSUME NEW phase
    PROVE  Share(Summary.weaknesses, phase) = Cardinality(ErrorsIn(phase))
<1>1. PICK named : named = {Phase(ply) : ply \in Errors}
  OBVIOUS
<1>2. Summary.weaknesses = [p \in named |-> Cardinality(ErrorsIn(p))]
  BY <1>1 DEF Summary, Errors, ErrorsIn
<1>3. CASE phase \in named
  BY <1>2, <1>3 DEF Share
<1>4. CASE phase \notin named
  <2>1. ErrorsIn(phase) = {}
    BY <1>1, <1>4 DEF ErrorsIn, Errors
  <2>2. Share(Summary.weaknesses, phase) = 0
    BY <1>2, <1>4 DEF Share
  <2> QED BY <2>1, <2>2, FS_EmptySet
<1> QED BY <1>3, <1>4

LEMMA PhasesShareTheErrors ==
    ASSUME GameInv
    PROVE  Share(Summary.weaknesses, "opening") + Share(Summary.weaknesses, "middlegame")
               + Share(Summary.weaknesses, "endgame") = Summary.blunders + Summary.mistakes
<1>1. PICK A, B, C : A = ErrorsIn("opening") /\ B = ErrorsIn("middlegame") /\ C = ErrorsIn("endgame")
  OBVIOUS
<1>2. A \in SUBSET Errors /\ B \in SUBSET Errors /\ C \in SUBSET Errors
  BY <1>1 DEF ErrorsIn, Errors
<1>3. IsFiniteSet(A) /\ IsFiniteSet(B) /\ IsFiniteSet(C)
  BY <1>2, ErrorsAddUp, FS_Subset
<1>4. A \intersect B = {} /\ (A \union B) \intersect C = {}
  BY <1>1 DEF ErrorsIn
<1>5. Errors = (A \union B) \union C
  <2>1. ASSUME NEW ply \in Errors PROVE ply \in A \/ ply \in B \/ ply \in C
    <3>1. Phase(ply) \in {"opening", "middlegame", "endgame"}
      BY DEF Phase
    <3> QED BY <1>1, <2>1, <3>1 DEF Errors, ErrorsIn
  <2> QED BY <1>2, <2>1
<1>6. IsFiniteSet(A \union B) /\ Cardinality(A \union B) = Cardinality(A) + Cardinality(B)
  BY <1>3, <1>4, TwoParts
<1>7. Cardinality(Errors) = Cardinality(A \union B) + Cardinality(C)
  BY <1>3, <1>4, <1>5, <1>6, TwoParts
<1> QED BY <1>1, <1>6, <1>7, Shares, ErrorsAddUp

\* A move the review calls unremarkable cost less than a mistake.
LEMMA UnremarkableIsNoError ==
    ASSUME GameInv, NEW ply \in MyPlies, Classify(ply).type = "none"
    PROVE  ~(LossCp(ply) >= MISTAKE)
<1>1. PICK loss \in Nat : loss = LossCp(ply) /\ loss = RecordLoss(ply)
  BY Losses
<1>2. PICK type : type =
          IF BeforePov(ply) >= WINNING /\ loss >= MISTAKE THEN "missed_win"
          ELSE IF loss >= BLUNDER THEN "blunder"
          ELSE IF OppPriorSwing(ply) >= OPPONENT_ERROR_SWING /\ loss <= HOLD_LOSS_MAX THEN "punished_mistake"
          ELSE IF loss >= MISTAKE THEN "mistake" ELSE "none"
  OBVIOUS
<1>3. Classify(ply).type = type
  BY <1>1, <1>2 DEF Classify, Moment
<1>4. loss >= MISTAKE => ~(loss <= HOLD_LOSS_MAX)
  BY <1>1 DEF MISTAKE, HOLD_LOSS_MAX
<1> QED BY <1>1, <1>2, <1>3, <1>4

LEMMA StrategicIsClean == ASSUME GameInv PROVE StrategicMeansNoErrors
<1>1. SUFFICES ASSUME ReviewMode = "strategic"
               PROVE  Errors = {ply \in MyPlies \ Eligible : LossCp(ply) >= MISTAKE}
  BY ErrorsAddUp DEF StrategicMeansNoErrors
<1>2. \A ply \in Eligible : Classify(ply).type = "none"
  BY <1>1 DEF ReviewMode, Remarkable
<1>3. \A ply \in Eligible : ply \in MyPlies /\ ~(LossCp(ply) >= MISTAKE)
  BY <1>2, UnremarkableIsNoError DEF Eligible
<1> QED BY <1>3 DEF Errors

LEMMA GameTypesHold == ASSUME GameInv PROVE GameTypeOK
<1>1. /\ side \in {"none", "white", "black"} /\ table \in Tables \union {NoTable} /\ mated \in BOOLEAN
  BY DEF GameInv
<1>2. ASSUME NEW i \in DOMAIN series
      PROVE  series[i] \in table.cps \/ (mated /\ i = Len(series)
                 /\ series[i] \in {-MATE_VALUE_CP, MATE_VALUE_CP})
  BY <1>2 DEF GameInv
<1>3. \A ply \in MyPlies : LossCp(ply) = RecordLoss(ply)
  BY Losses
<1> QED BY <1>1, <1>2, <1>3, PhasesShareTheErrors DEF GameTypeOK

-----------------------------------------------------------------------------
(* The cards of a review *)

LEMMA CandidatesDiffer ==
    ASSUME GameInv, NEW c \in Candidates
    PROVE  /\ c.score \in Int /\ c.ply \in Nat
           /\ \A d \in Candidates : d.ply = c.ply => d = c
<1>1. ASSUME NEW ply \in MyPlies
      PROVE  /\ ply \in Nat /\ RecordLoss(ply) \in Nat
             /\ Classify(ply).ply = ply /\ Classify(ply).score \in Int
  <2>1. PICK loss \in Nat, swing \in Int : loss = RecordLoss(ply) /\ swing = OppPriorSwing(ply)
    BY Losses
  <2>2. ASSUME NEW type PROVE Base(type) \in Int
    BY DEF Base
  <2>3. Bonus(loss) \in Int /\ Bonus(swing) \in Int
    BY <2>1 DEF Bonus
  <2>4. PICK type : Classify(ply) = Moment(ply, type,
            Base(type) + Bonus(IF type = "punished_mistake" THEN swing ELSE loss))
    BY <2>1 DEF Classify
  <2>5. PICK more \in Int : more = Bonus(IF type = "punished_mistake" THEN swing ELSE loss)
    BY <2>3
  <2>6. Base(type) + more \in Int
    BY <2>2, <2>5
  <2>7. Classify(ply).ply = ply /\ Classify(ply).score = Base(type) + more
    BY <2>4, <2>5 DEF Moment
  <2> QED BY <2>1, <2>6, <2>7, FinitelyMany
<1>2. CASE Remarkable # {}
  <2>1. \A d \in Candidates : \E ply \in MyPlies : d = Classify(ply)
    BY <1>2 DEF Candidates, Remarkable, Eligible
  <2> QED BY <1>1, <2>1
<1>3. CASE Remarkable = {}
  <2>1. \A d \in Candidates : \E ply \in MyPlies : d = Moment(ply, "strategic", 1000 * RecordLoss(ply))
    BY <1>3 DEF Candidates, Eligible
  <2>2. ASSUME NEW ply \in MyPlies
        PROVE  /\ Moment(ply, "strategic", 1000 * RecordLoss(ply)).ply = ply
               /\ Moment(ply, "strategic", 1000 * RecordLoss(ply)).score \in Int
    <3>1. PICK loss \in Nat : loss = RecordLoss(ply)
      BY <1>1
    <3> QED BY <3>1 DEF Moment
  <2> QED BY <1>1, <2>1, <2>2
<1> QED BY <1>2, <1>3

LEMMA FewCandidates == ASSUME GameInv PROVE IsFiniteSet(Candidates)
<1>1. PICK plies : plies = {c.ply : c \in Candidates}
  OBVIOUS
<1>2. plies \subseteq MyPlies
  <2>1. \A ply : Classify(ply).ply = ply
    BY DEF Classify, Moment
  <2>2. \A ply : Moment(ply, "strategic", 1000 * RecordLoss(ply)).ply = ply
    BY DEF Moment
  <2>3. CASE Remarkable # {}
    BY <1>1, <2>1, <2>3 DEF Candidates, Remarkable, Eligible
  <2>4. CASE Remarkable = {}
    BY <1>1, <2>2, <2>4 DEF Candidates, Eligible
  <2> QED BY <2>3, <2>4
<1>3. IsFiniteSet(plies)
  BY <1>2, FinitelyMany, FS_Subset
<1>4. PICK f : f = [ply \in plies |-> CHOOSE c \in Candidates : c.ply = ply]
  OBVIOUS
<1>5. ASSUME NEW ply \in plies PROVE f[ply] \in Candidates /\ f[ply].ply = ply
  BY <1>1, <1>4
<1>6. ASSUME NEW c \in Candidates PROVE c.ply \in plies /\ f[c.ply] = c
  <2>1. c.ply \in plies
    BY <1>1
  <2> QED BY <1>5, <2>1, CandidatesDiffer
<1>7. f \in Surjection(plies, Candidates)
  BY <1>4, <1>5, <1>6 DEF Surjection
<1> QED BY <1>3, <1>7, FS_Surjection

Ahead(c) == {d \in Candidates : Better(d, c)}

\* No two candidates have the same number of better ones.
LEMMA RanksDiffer ==
    ASSUME GameInv, NEW c \in Candidates, NEW d \in Candidates,
           Cardinality(Ahead(c)) = Cardinality(Ahead(d))
    PROVE  c = d
<1>1. ASSUME NEW x \in Candidates, NEW y \in Candidates, Better(x, y)
      PROVE  Cardinality(Ahead(x)) # Cardinality(Ahead(y))
  <2>1. ASSUME NEW z \in Candidates, Better(z, x) PROVE Better(z, y)
    <3>1. PICK xs \in Int, ys \in Int, zs \in Int, xp \in Nat, yp \in Nat, zp \in Nat :
             /\ xs = x.score /\ ys = y.score /\ zs = z.score
             /\ xp = x.ply /\ yp = y.ply /\ zp = z.ply
      BY CandidatesDiffer
    <3>2. /\ xs > ys \/ (xs = ys /\ xp < yp)
          /\ zs > xs \/ (zs = xs /\ zp < xp)
      BY <1>1, <2>1, <3>1 DEF Better
    <3>3. zs > ys \/ (zs = ys /\ zp < yp)
      BY ONLY <3>1, <3>2
    <3> QED BY <3>1, <3>3 DEF Better
  <2>2. ~Better(x, x)
    <3>1. PICK xs \in Int, xp \in Nat : xs = x.score /\ xp = x.ply
      BY CandidatesDiffer
    <3> QED BY <3>1 DEF Better
  <2>3. Ahead(x) \in SUBSET Ahead(y) /\ x \in Ahead(y) /\ x \notin Ahead(x)
    BY <1>1, <2>1, <2>2 DEF Ahead
  <2>4. IsFiniteSet(Ahead(y))
    <3>1. Ahead(y) \in SUBSET Candidates
      BY DEF Ahead
    <3> QED BY <3>1, FewCandidates, FS_Subset
  <2>5. Cardinality(Ahead(y)) = Cardinality(Ahead(x)) => Ahead(y) = Ahead(x)
    BY <2>3, <2>4, FS_Subset
  <2> QED BY <2>3, <2>5
<1>2. c # d => Better(c, d) \/ Better(d, c)
  <2>1. PICK cs \in Int, ds \in Int, cp \in Nat, dp \in Nat :
           cs = c.score /\ ds = d.score /\ cp = c.ply /\ dp = d.ply
    BY CandidatesDiffer
  <2>2. c # d => cp # dp
    BY <2>1, CandidatesDiffer
  <2>3. cp # dp => (cs > ds \/ (cs = ds /\ cp < dp)) \/ (ds > cs \/ (ds = cs /\ dp < cp))
    BY ONLY <2>1
  <2> QED BY <2>1, <2>2, <2>3 DEF Better
<1> QED BY <1>1, <1>2

\* The ranking has every candidate.
LEMMA AllAreRanked ==
    ASSUME GameInv
    PROVE  /\ Len(Ranked) \in Nat
           /\ \A c \in Candidates : \E i \in 1..Len(Ranked) : Ranked[i] = c
<1>1. PICK n \in Nat : n = Cardinality(Candidates)
  BY FewCandidates, FS_CardinalityType
<1>2. Ranked = [i \in 1..n |-> CHOOSE c \in Candidates : Cardinality(Ahead(c)) = i - 1]
  BY <1>1 DEF Ranked, Ahead
<1>3. Len(Ranked) = n
  <2>1. PICK S : S = {Ranked[i] : i \in 1..n}
    OBVIOUS
  <2>2. Ranked \in [1..n -> S]
    BY <1>2, <2>1
  <2> QED BY <1>1, <1>2, <2>2, IsASeq, LenProperties
<1>4. ASSUME NEW c \in Candidates PROVE \E i \in 1..n : Ranked[i] = c
  <2>1. Ahead(c) \in SUBSET Candidates /\ c \notin Ahead(c)
    <3>1. PICK s \in Int, p \in Nat : s = c.score /\ p = c.ply
      BY CandidatesDiffer
    <3> QED BY <3>1 DEF Ahead, Better
  <2>2. PICK k \in Nat : k = Cardinality(Ahead(c)) /\ k <= n /\ k # n
    <3>1. IsFiniteSet(Ahead(c)) /\ Cardinality(Ahead(c)) <= n /\ Cardinality(Ahead(c)) # n
      BY <1>1, <2>1, FewCandidates, FS_Subset
    <3> QED BY <3>1, FS_CardinalityType
  <2>3. k + 1 \in 1..n /\ (k + 1) - 1 = k
    BY <1>1, <2>2
  <2>4. PICK d : d = Ranked[k + 1]
    OBVIOUS
  <2>5. d = CHOOSE x \in Candidates : Cardinality(Ahead(x)) = k
    BY <1>2, <2>3, <2>4
  <2>6. d \in Candidates /\ Cardinality(Ahead(d)) = k
    BY <2>2, <2>5
  <2>7. d = c
    BY <2>2, <2>6, RanksDiffer
  <2> QED BY <2>3, <2>4, <2>7
<1> QED BY <1>1, <1>3, <1>4

\* The sets a pass goes through, one for each place of the ranking.
LEMMA PassSteps ==
    ASSUME GameInv, NEW start, NEW capped
    PROVE  \E g : /\ g[0] = start
                  /\ \A i \in 1..Len(Ranked) : g[i] = Took(g[i - 1], Ranked[i], capped)
                  /\ PickPass(start, capped) = g[Len(Ranked)]
<1> DEFINE Goes(g) == g = [i \in 0..Len(Ranked) |->
                              IF i = 0 THEN start ELSE Took(g[i - 1], Ranked[i], capped)]
<1>1. PICK n \in Nat : n = Len(Ranked)
  BY AllAreRanked
<1>2. PICK S : S = SUBSET (start \union {Ranked[i] : i \in 1..n})
  OBVIOUS
<1>3. start \in S
  BY <1>2
<1>4. PICK F : F = [i \in 1..n |-> [x \in S |-> Took(x, Ranked[i], capped)]]
  OBVIOUS
<1>5. F \in [1..n -> [S -> S]]
  <2>1. ASSUME NEW i \in 1..n, NEW x \in S PROVE Took(x, Ranked[i], capped) \in S
    BY <1>2 DEF Took
  <2> QED BY <1>4, <2>1
<1>6. PICK g \in [0..n -> S] : g[0] = start /\ \A i \in 1..n : g[i] = F[i][g[i - 1]]
  <2>1. n \in Nat /\ start \in S /\ F \in [1..n -> [S -> S]]
    BY <1>1, <1>3, <1>5
  <2>2. \E g \in [0..n -> S] : g[0] = start /\ \A i \in 1..n : g[i] = F[i][g[i - 1]]
    BY ONLY <2>1, Recursion
  <2> QED BY <2>2
<1>7. ASSUME NEW i \in 1..n PROVE g[i] = Took(g[i - 1], Ranked[i], capped)
  <2>1. i - 1 \in 0..n
    BY <1>1
  <2> QED BY <1>4, <1>6, <2>1
<1>8. Goes(g)
  <2>1. ASSUME NEW i \in 0..n PROVE g[i] = IF i = 0 THEN start ELSE Took(g[i - 1], Ranked[i], capped)
    <3>1. CASE i = 0
      BY <1>6, <3>1
    <3>2. CASE i # 0
      <4>1. i \in 1..n
        BY <1>1, <3>2
      <4> QED BY <1>7, <3>2, <4>1
    <3> QED BY <3>1, <3>2
  <2> QED BY <1>1, <1>6, <2>1
<1>9. PICK h : h = CHOOSE x : Goes(x)
  OBVIOUS
<1>10. Goes(h)
  <2> HIDE DEF Goes
  <2> QED BY <1>8, <1>9
<1>11. PickPass(start, capped) = h[Len(Ranked)]
  BY <1>9 DEF PickPass
<1>12. h[0] = start
  BY <1>1, <1>10
<1>13. ASSUME NEW i \in 1..n PROVE h[i] = Took(h[i - 1], Ranked[i], capped)
  <2>1. i \in 0..n /\ i # 0
    BY <1>1
  <2> QED BY <1>1, <1>10, <2>1
<1> QED BY <1>1, <1>11, <1>12, <1>13

LEMMA TookFacts ==
    ASSUME NEW picked, IsFiniteSet(picked), NEW c, NEW capped
    PROVE  /\ picked \subseteq Took(picked, c, capped) /\ IsFiniteSet(Took(picked, c, capped))
           /\ ~(Cardinality(picked) < 3) => Took(picked, c, capped) = picked
           /\ \/ c \in Took(picked, c, capped) \/ ~(Cardinality(picked) < 3) \/ TooClose(c, picked)
              \/ (capped /\ Negative(c))
           /\ capped /\ Cardinality(Negatives(picked)) <= 2
                  => Cardinality(Negatives(Took(picked, c, capped))) <= 2
<1>1. Took(picked, c, capped) \in {picked, picked \union {c}} /\ picked \subseteq Took(picked, c, capped)
  BY DEF Took
<1>2. IsFiniteSet(Took(picked, c, capped))
  BY <1>1, FS_AddElement
<1>3. ~(Cardinality(picked) < 3) => Took(picked, c, capped) = picked
  BY DEF Took
<1>4. \/ c \in Took(picked, c, capped) \/ ~(Cardinality(picked) < 3) \/ TooClose(c, picked)
      \/ (capped /\ Negative(c))
  BY DEF Took
<1>5. ASSUME capped, Cardinality(Negatives(picked)) <= 2
      PROVE  Cardinality(Negatives(Took(picked, c, capped))) <= 2
  <2>1. CASE Took(picked, c, capped) = picked
    BY <1>5, <2>1
  <2>2. CASE Took(picked, c, capped) # picked /\ ~Negative(c)
    <3>1. Negatives(Took(picked, c, capped)) = Negatives(picked)
      BY <1>1, <2>2 DEF Negatives
    <3> QED BY <1>5, <3>1
  <2>3. CASE Took(picked, c, capped) # picked /\ Negative(c)
    <3>1. ~(Cardinality(Negatives(picked)) >= 2)
      BY <1>5, <2>3 DEF Took
    <3>2. Negatives(Took(picked, c, capped)) = Negatives(picked) \union {c}
      BY <1>1, <2>3 DEF Negatives
    <3>3. IsFiniteSet(Negatives(picked))
      <4>1. Negatives(picked) \in SUBSET picked
        BY DEF Negatives
      <4> QED BY <4>1, FS_Subset
    <3>4. PICK k \in Nat : k = Cardinality(Negatives(picked))
      BY <3>3, FS_CardinalityType
    <3>5. Cardinality(Negatives(Took(picked, c, capped))) \in {k, k + 1}
      BY <3>2, <3>3, <3>4, FS_AddElement
    <3> QED BY <3>1, <3>4, <3>5
  <2> QED BY <2>1, <2>2, <2>3
<1> QED BY <1>1, <1>2, <1>3, <1>4, <1>5

\* What a pass keeps, takes and refuses.
LEMMA PassFacts ==
    ASSUME GameInv, NEW start, IsFiniteSet(start), NEW capped,
           NEW out, out = PickPass(start, capped)
    PROVE  /\ start \subseteq out /\ IsFiniteSet(out)
           /\ ~(Cardinality(start) < 3) => out = start
           /\ \A c \in Candidates : Cardinality(out) < 3 /\ ~(capped /\ Negative(c))
                  => c \in out \/ TooClose(c, out)
           /\ capped /\ Cardinality(Negatives(start)) <= 2 => Cardinality(Negatives(out)) <= 2
<1>1. PICK n \in Nat : n = Len(Ranked) /\ \A c \in Candidates : \E i \in 1..n : Ranked[i] = c
  BY AllAreRanked
<1>2. PICK g : /\ g[0] = start /\ g[n] = out
               /\ \A i \in 1..n : g[i] = Took(g[i - 1], Ranked[i], capped)
  BY <1>1, PassSteps
<1>3. PICK So : So = {k \in Nat : k <= n =>
          /\ IsFiniteSet(g[k]) /\ \A i \in 0..k : g[i] \subseteq g[k]
          /\ ~(Cardinality(start) < 3) => g[k] = start
          /\ capped /\ Cardinality(Negatives(start)) <= 2 => Cardinality(Negatives(g[k])) <= 2}
  OBVIOUS
<1>4. 0 \in So
  BY <1>2, <1>3
<1>5. ASSUME NEW k \in Nat, k \in So PROVE k + 1 \in So
  <2>1. SUFFICES ASSUME k + 1 <= n
        PROVE  /\ IsFiniteSet(g[k + 1]) /\ \A i \in 0..(k + 1) : g[i] \subseteq g[k + 1]
               /\ ~(Cardinality(start) < 3) => g[k + 1] = start
               /\ capped /\ Cardinality(Negatives(start)) <= 2
                      => Cardinality(Negatives(g[k + 1])) <= 2
    BY <1>3
  <2>2. k <= n /\ k + 1 \in 1..n /\ (k + 1) - 1 = k
    BY <1>1, <2>1
  <2>3. /\ IsFiniteSet(g[k]) /\ \A i \in 0..k : g[i] \subseteq g[k]
        /\ ~(Cardinality(start) < 3) => g[k] = start
        /\ capped /\ Cardinality(Negatives(start)) <= 2 => Cardinality(Negatives(g[k])) <= 2
    BY <1>3, <1>5, <2>2
  <2>4. g[k + 1] = Took(g[k], Ranked[k + 1], capped)
    BY <1>2, <2>2
  <2>5. ASSUME NEW i \in 0..(k + 1) PROVE g[i] \subseteq g[k + 1]
    <3>1. CASE i = k + 1
      BY <3>1
    <3>2. CASE i # k + 1
      <4>1. i \in 0..k
        BY <3>2
      <4> QED BY <2>3, <2>4, <4>1, TookFacts
    <3> QED BY <3>1, <3>2
  <2> QED BY <2>3, <2>4, <2>5, TookFacts
<1>6. n \in So
  BY <1>4, <1>5, Induction
<1>7. /\ IsFiniteSet(out) /\ \A i \in 0..n : g[i] \subseteq out
      /\ ~(Cardinality(start) < 3) => out = start
      /\ capped /\ Cardinality(Negatives(start)) <= 2 => Cardinality(Negatives(out)) <= 2
  BY <1>2, <1>3, <1>6
<1>8. ASSUME NEW c \in Candidates, Cardinality(out) < 3, ~(capped /\ Negative(c))
      PROVE  c \in out \/ TooClose(c, out)
  <2>1. PICK i \in 1..n : Ranked[i] = c
    BY <1>1
  <2>2. i \in 0..n /\ i - 1 \in 0..n
    BY <1>1
  <2>3. g[i] \subseteq out /\ g[i - 1] \in SUBSET out
    BY <1>7, <2>2
  <2>4. IsFiniteSet(g[i - 1]) /\ Cardinality(g[i - 1]) <= Cardinality(out)
    BY <1>7, <2>3, FS_Subset
  <2>5. Cardinality(g[i - 1]) < 3
    <3>1. PICK a \in Nat, b \in Nat : a = Cardinality(g[i - 1]) /\ b = Cardinality(out)
      BY <1>7, <2>4, FS_CardinalityType
    <3> QED BY <1>8, <2>4, <3>1
  <2>6. c \in g[i] \/ TooClose(c, g[i - 1])
    BY <1>2, <1>8, <2>1, <2>4, <2>5, TookFacts
  <2>7. TooClose(c, g[i - 1]) => TooClose(c, out)
    BY <2>3 DEF TooClose
  <2> QED BY <2>3, <2>6, <2>7
<1>9. start \subseteq out
  <2>1. 0 \in 0..n
    BY <1>1
  <2> QED BY <1>2, <1>7, <2>1
<1> QED BY <1>7, <1>8, <1>9

LEMMA FirstPassFacts ==
    ASSUME GameInv
    PROVE  /\ IsFiniteSet(FirstPass)
           /\ PositiveAvailable => Cardinality(Negatives(FirstPass)) <= 2
           /\ \A c \in Candidates : ~Negative(c) /\ Cardinality(FirstPass) < 3
                  => c \in FirstPass \/ TooClose(c, FirstPass)
<1>1. IsFiniteSet({}) /\ Negatives({}) = {} /\ Cardinality({}) <= 2
  BY FS_EmptySet DEF Negatives
<1>2. FirstPass = PickPass({}, PositiveAvailable)
  BY DEF FirstPass
<1> QED BY <1>1, <1>2, PassFacts

LEMMA CardsAreFilled == ASSUME GameInv PROVE CardsFilled
<1>1. CriticalMoments = PickPass(FirstPass, FALSE)
  BY DEF CriticalMoments, SecondPass
<1>2. \A c \in Candidates : Cardinality(CriticalMoments) < 3
          => c \in CriticalMoments \/ TooClose(c, CriticalMoments)
  BY <1>1, FirstPassFacts, PassFacts
<1> QED BY <1>2 DEF CardsFilled

\* A candidate is too close to itself.
LEMMA CloseToItself ==
    ASSUME GameInv, NEW picked, NEW c \in Candidates, c \in picked
    PROVE  TooClose(c, picked)
<1>1. PICK p \in Nat : p = c.ply
  BY CandidatesDiffer
<1>2. Distance(c, c) < MIN_PLY_GAP
  BY <1>1 DEF Distance, MIN_PLY_GAP
<1> QED BY <1>2 DEF TooClose

LEMMA NegativesAreCapped == ASSUME GameInv PROVE NegativesCapped
<1>1. PICK shown : shown = CriticalMoments /\ shown = PickPass(FirstPass, FALSE)
  BY DEF CriticalMoments, SecondPass
<1>2. SUFFICES ASSUME Cardinality(Negatives(shown)) = 3,
                      NEW c \in Candidates, ~Negative(c), ~TooClose(c, shown)
               PROVE  FALSE
  BY <1>1 DEF NegativesCapped
<1>3. Cardinality(Negatives(FirstPass)) <= 2
  BY <1>2, FirstPassFacts DEF PositiveAvailable
<1>4. FirstPass \subseteq shown
  BY <1>1, FirstPassFacts, PassFacts
<1>5. c \notin FirstPass /\ ~TooClose(c, FirstPass)
  <2>1. c \notin shown
    BY <1>2, CloseToItself
  <2> QED BY <1>2, <1>4, <2>1 DEF TooClose
<1>6. ~(Cardinality(FirstPass) < 3)
  BY <1>2, <1>5, FirstPassFacts
<1>7. shown = FirstPass
  BY <1>1, <1>6, FirstPassFacts, PassFacts
<1> QED BY <1>2, <1>3, <1>7

\* pgn_accuracy.py, detector.py, moments.py: losses, errors, the first mistake, the
\* mode of the review and its cards agree, for every game of any tables of
\* evaluations, any placement of the phases and any length of the opening book.
THEOREM AnalysisIsSafe == GameSpec => []AnalysisSafe
<1>1. GameInv => AnalysisSafe
  BY GameTypesHold, MatesAreNoErrors, SlidesAreNoticed, StrategicIsClean, CardsAreFilled,
     NegativesAreCapped DEF AnalysisSafe
<1> QED BY <1>1, GameInvariance, PTL
=============================================================================
