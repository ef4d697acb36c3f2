---------------------------- MODULE Account_proofs ----------------------------
(* Theorems about a player's account: the tokens of a session, the metered    *)
(* allowances, the stored plan, the accounts with their sessions, and the     *)
(* schema a server starts on.                                                 *)
EXTENDS SessionRotation, Entitlements, Billing, Accounts, ServerBoot, FiniteSetTheorems, SequenceTheorems,
        WellFoundedInduction, TLAPS

-----------------------------------------------------------------------------
(* The tokens of a session (SessionRotation) *)

\* A careful client whose routes answer 200 or an error: the other success
\* codes leave the client behind, as the run session_accepted shows.
Follows(h) == h.inFlight = 1 /\ ~h.lossy /\ h.statuses \subseteq {"ok", "error"}

\* A client that sends one request at a time has one in flight.
OneInFlight == \A q, r \in InFlight : q = r

\* Its tokens only get younger: a demoted one was minted before the current
\* one, and the previous one is accepted for the grace it got.
TokensAge ==
    /\ current <= second
    /\ \A r \in Calls : fresh[r] <= second
    /\ \A r \in Calls : step[r] = "admitted" => current <= fresh[r]
    /\ \A t \in Tokens : demoted[t] # NoToken => t < current
    /\ previous # NoToken => demoted[previous] # NoToken /\ until = demoted[previous] + Grace

\* What a careful client presents, or is about to store, is the current token.
ClientFollows ==
    /\ open => client # NoToken
    /\ open /\ InFlight = {} => client = current
    /\ \A r \in Calls : open /\ step[r] \in {"sent", "admitted"} =>
          token[r] = current /\ client = current
    /\ \A r \in Calls : open /\ step[r] = "answered" =>
          current = IF status[r] = "ok" THEN fresh[r] ELSE client
    /\ \A r \in Calls : step[r] = "answered" => status[r] \in habit.statuses

Admits == open => \A r \in Calls : step[r] # "refused"

RotationInv ==
    /\ SessionTypeOK
    /\ habit.inFlight = 1 => OneInFlight /\ TokensAge
    /\ Follows(habit) => ClientFollows /\ Admits

LEMMA HabitTypes ==
    ASSUME habit \in Habits
    PROVE  /\ habit.inFlight \in Nat \ {0} /\ habit.statuses \subseteq AllStatuses
           /\ habit.lossy \in BOOLEAN
BY SessionRotationAssumption

\* The requests in flight are finitely many, and below the bound of one there is none.
LEMMA NoneInFlight == Cardinality(InFlight) < 1 => InFlight = {}
<1>1. IsFiniteSet(1..MaxCalls)
  BY FS_Interval, SessionRotationAssumption
<1>2. IsFiniteSet(InFlight)
  BY <1>1, FS_Subset DEF InFlight, Calls
<1>3. Cardinality(InFlight) \in Nat
  BY <1>2, FS_CardinalityType
<1> QED BY <1>2, <1>3, FS_EmptySet

LEMMA RotationInit == SessionInit => RotationInv
<1> SUFFICES ASSUME SessionInit PROVE RotationInv
  OBVIOUS
<1>1. SessionTypeOK
  BY SessionRotationAssumption DEF SessionInit, SessionTypeOK, Tokens
<1>2. InFlight = {}
  BY DEF SessionInit, InFlight
<1>3. OneInFlight /\ TokensAge
  BY <1>2, SessionRotationAssumption DEF SessionInit, OneInFlight, TokensAge, Tokens
<1>4. ClientFollows /\ Admits
  BY <1>2, SessionRotationAssumption DEF SessionInit, ClientFollows, Admits, Tokens
<1> QED BY <1>1, <1>3, <1>4 DEF RotationInv

LEMMA SecondPassesOK == RotationInv /\ SecondPasses => RotationInv'
<1> SUFFICES ASSUME RotationInv, SecondPasses PROVE RotationInv'
  OBVIOUS
<1> USE DEF SecondPasses, session
<1>1. SessionTypeOK'
  BY SessionRotationAssumption DEF RotationInv, SessionTypeOK, Tokens
<1>2. InFlight' = InFlight
  BY DEF InFlight
<1>3. habit.inFlight = 1 => OneInFlight' /\ TokensAge'
  BY <1>2, SessionRotationAssumption
  DEF RotationInv, SessionTypeOK, OneInFlight, TokensAge, Tokens, Calls
<1>4. Follows(habit) => ClientFollows' /\ Admits'
  BY <1>2 DEF RotationInv, ClientFollows, Admits, Follows
<1> QED BY <1>1, <1>3, <1>4 DEF RotationInv, Follows

LEMMA SendOK ==
    ASSUME RotationInv, NEW r \in Calls, Send(r)
    PROVE  RotationInv'
<1> USE DEF Send, session
<1>1. SessionTypeOK'
  BY SessionRotationAssumption DEF RotationInv, SessionTypeOK
<1>2. InFlight' = InFlight \union {r} /\ r \notin InFlight
  BY DEF RotationInv, SessionTypeOK, InFlight
<1>3. habit.inFlight = 1 => InFlight = {}
  BY NoneInFlight
<1>4. habit.inFlight = 1 => OneInFlight'
  BY <1>2, <1>3 DEF OneInFlight
<1>5. habit.inFlight = 1 => TokensAge'
  BY DEF RotationInv, SessionTypeOK, TokensAge
<1>6. Follows(habit) => ClientFollows'
  BY <1>2, <1>3 DEF RotationInv, SessionTypeOK, ClientFollows, Follows, InFlight
<1>7. Follows(habit) => Admits'
  BY DEF RotationInv, SessionTypeOK, Admits, Follows
<1> QED BY <1>1, <1>4, <1>5, <1>6, <1>7 DEF RotationInv, Follows

LEMMA AdmitCallOK ==
    ASSUME RotationInv, NEW r \in Calls, AdmitCall(r)
    PROVE  RotationInv'
<1> USE DEF AdmitCall, session
<1>1. SessionTypeOK'
  BY SessionRotationAssumption DEF RotationInv, SessionTypeOK
<1>2. InFlight' \subseteq InFlight /\ r \in InFlight
  BY DEF RotationInv, SessionTypeOK, InFlight
<1>3. habit.inFlight = 1 => OneInFlight'
  BY <1>2 DEF RotationInv, OneInFlight
<1>4. ASSUME habit.inFlight = 1 PROVE TokensAge'
  <2>1. \A q \in Calls : fresh'[q] = fresh[q] \/ fresh'[q] = second
    BY DEF RotationInv, SessionTypeOK
  <2>2. \A q \in Calls : step'[q] = "admitted" =>
          \/ step[q] = "admitted" /\ fresh'[q] = fresh[q]
          \/ fresh'[q] = second
    BY DEF RotationInv, SessionTypeOK
  <2>3. second \in Nat /\ current <= second
    BY <1>4, SessionRotationAssumption DEF RotationInv, SessionTypeOK, TokensAge, Tokens
  <2> QED BY <1>4, <2>1, <2>2, <2>3 DEF RotationInv, TokensAge
<1>5. Follows(habit) /\ open => Accepts(token[r])
  BY DEF RotationInv, ClientFollows, Accepts
<1>6. Follows(habit) => ClientFollows'
  <2>1. Follows(habit) /\ open => InFlight' # {}
    BY <1>5 DEF RotationInv, SessionTypeOK, InFlight
  <2> QED BY <2>1, <1>2 DEF RotationInv, SessionTypeOK, ClientFollows, Follows
<1>7. Follows(habit) => Admits'
  BY <1>5 DEF RotationInv, SessionTypeOK, Admits, Follows
<1> QED BY <1>1, <1>3, <1>4, <1>6, <1>7 DEF RotationInv, Follows

LEMMA RespondOK ==
    ASSUME RotationInv, NEW r \in Calls, NEW s \in AllStatuses, Respond(r, s)
    PROVE  RotationInv'
<1> USE DEF Respond, session
<1>1. SessionTypeOK'
  <2>1. status' \in [Calls -> habit.statuses \union {NoToken}]
    BY DEF RotationInv, SessionTypeOK
  <2>2. step' \in [Calls -> {"unsent", "sent", "admitted", "answered", "closed", "refused"}]
    BY DEF RotationInv, SessionTypeOK
  <2>3. second + Grace \in 0..MaxSeconds + Grace
    BY SessionRotationAssumption DEF RotationInv, SessionTypeOK, Tokens
  <2>4. /\ open' \in BOOLEAN /\ current' \in Tokens /\ previous' \in Tokens \union {NoToken}
        /\ until' \in 0..MaxSeconds + Grace
        /\ demoted' \in [Tokens -> Tokens \union {NoToken}]
    BY <2>3 DEF RotationInv, SessionTypeOK, Rotate
  <2> QED BY <2>1, <2>2, <2>4 DEF RotationInv, SessionTypeOK
<1>2. InFlight' = InFlight /\ r \in InFlight
  BY DEF RotationInv, SessionTypeOK, InFlight
<1>3. habit.inFlight = 1 => OneInFlight'
  BY <1>2 DEF RotationInv, OneInFlight
<1>4. ASSUME habit.inFlight = 1 PROVE TokensAge'
  <2>1. \A q \in Calls : step'[q] # "admitted"
    BY <1>2, <1>3, <1>4 DEF RotationInv, SessionTypeOK, OneInFlight, InFlight
  <2>2. CASE Rotates(s) /\ open /\ current # fresh[r]
    <3>1. current < fresh[r] /\ fresh[r] <= second
      BY <1>4, <2>2 DEF RotationInv, SessionTypeOK, TokensAge, Tokens
    <3>2. \A t \in Tokens : demoted'[t] # NoToken => t < current'
      <4>1. \A t \in Tokens : demoted'[t] # NoToken => t = current \/ t < current
        BY <1>4, <2>2 DEF RotationInv, SessionTypeOK, TokensAge, Rotate
      <4>2. current' = fresh[r] /\ fresh[r] \in Tokens /\ current \in Tokens
        BY <2>2 DEF RotationInv, SessionTypeOK, Rotate
      <4> QED BY <3>1, <4>1, <4>2, SessionRotationAssumption DEF Tokens
    <3>3. demoted'[previous'] # NoToken /\ until' = demoted'[previous'] + Grace
      BY <2>2, SessionRotationAssumption DEF RotationInv, SessionTypeOK, Tokens, Rotate
    <3> QED BY <1>4, <2>1, <2>2, <3>1, <3>2, <3>3
            DEF RotationInv, SessionTypeOK, TokensAge, Rotate
  <2>3. CASE ~(Rotates(s) /\ open /\ current # fresh[r])
    <3>1. UNCHANGED session
      BY <2>3 DEF Rotate
    <3> QED BY <1>4, <2>1, <3>1 DEF RotationInv, TokensAge
  <2> QED BY <2>2, <2>3
<1>5. ASSUME Follows(habit) PROVE ClientFollows'
  <2>1. s \in {"ok", "error"}
    BY <1>5 DEF Follows, RotationInv, SessionTypeOK
  <2>2. \A q \in Calls : step'[q] \notin {"sent", "admitted"} /\ (step'[q] = "answered" => q = r)
    BY <1>2, <1>3, <1>5 DEF RotationInv, SessionTypeOK, OneInFlight, InFlight, Follows
  <2>3. step'[r] = "answered" /\ status'[r] = s /\ s \in habit.statuses
    BY DEF RotationInv, SessionTypeOK
  <2>4. open' => current' = IF s = "ok" THEN fresh[r] ELSE client
    BY <1>5, <2>1 DEF RotationInv, ClientFollows, Rotates, Rotate
  <2>5. open' => open
    BY DEF Rotate
  <2> QED BY <1>2, <1>5, <2>2, <2>3, <2>4, <2>5 DEF RotationInv, ClientFollows
<1>6. Follows(habit) => Admits'
  BY DEF RotationInv, SessionTypeOK, Admits, Follows, Rotate
<1> QED BY <1>1, <1>3, <1>4, <1>5, <1>6 DEF RotationInv, Follows

LEMMA CloseOK ==
    ASSUME RotationInv, NEW r \in Calls, Receive(r) \/ LoseReply(r)
    PROVE  RotationInv'
<1> USE DEF Receive, LoseReply, session
<1>1. SessionTypeOK'
  BY SessionRotationAssumption DEF RotationInv, SessionTypeOK
<1>2. InFlight' = InFlight \ {r} /\ r \in InFlight
  BY DEF RotationInv, SessionTypeOK, InFlight
<1>3. habit.inFlight = 1 => OneInFlight' /\ InFlight' = {}
  BY <1>2 DEF RotationInv, OneInFlight
<1>4. habit.inFlight = 1 => TokensAge'
  BY DEF RotationInv, SessionTypeOK, TokensAge
<1>5. ASSUME Follows(habit) PROVE ClientFollows'
  <2>1. \A q \in Calls : step'[q] \notin {"sent", "admitted", "answered"}
    BY <1>3, <1>5 DEF Follows, InFlight
  <2>2. open => client' = current
    <3>1. Receive(r)
      BY <1>5 DEF Follows
    <3> QED BY <1>5, <3>1 DEF RotationInv, ClientFollows
  <2>3. open => client' # NoToken
    BY <2>2, SessionRotationAssumption DEF RotationInv, SessionTypeOK, Tokens
  <2> QED BY <2>1, <2>2, <2>3 DEF ClientFollows
<1>6. Follows(habit) => Admits'
  BY DEF RotationInv, SessionTypeOK, Admits, Follows
<1> QED BY <1>1, <1>3, <1>4, <1>5, <1>6 DEF RotationInv, Follows

LEMMA RevokeOK == RotationInv /\ Revoke => RotationInv'
<1> SUFFICES ASSUME RotationInv, Revoke PROVE RotationInv'
  OBVIOUS
<1>1. SessionTypeOK'
  BY DEF Revoke, RotationInv, SessionTypeOK
<1> QED BY <1>1 DEF Revoke, RotationInv, OneInFlight, InFlight, TokensAge, ClientFollows,
                    Admits, Follows

\* The inductive invariant holds, whatever habits clients have.
THEOREM RotationInvariance == SessionSpec => []RotationInv
<1>1. SessionInit => RotationInv
  BY RotationInit
<1>2. RotationInv /\ [SessionNext]_sessionVars => RotationInv'
  <2> SUFFICES ASSUME RotationInv, [SessionNext]_sessionVars PROVE RotationInv'
    OBVIOUS
  <2>1. CASE UNCHANGED sessionVars
    BY <2>1 DEF sessionVars, RotationInv, SessionTypeOK, OneInFlight, InFlight, TokensAge,
                ClientFollows, Admits, Follows
  <2>2. CASE SessionNext
    BY <2>2, SecondPassesOK, RevokeOK, SendOK, AdmitCallOK, RespondOK, CloseOK DEF SessionNext
  <2> QED BY <2>1, <2>2
<1> QED BY <1>1, <1>2, PTL DEF SessionSpec

\* Where the routes of a client that makes one call at a time answer 200 or an
\* error, its token is accepted and is the current one; and a token that was
\* replaced is refused for good once its grace is over.
THEOREM RotationIsSafe ==
    (\A h \in Habits : h.inFlight = 1 /\ ~h.lossy => h.statuses \subseteq {"ok", "error"})
        => (SessionSpec => []RotationSafe)
<1> SUFFICES ASSUME \A h \in Habits :
                       h.inFlight = 1 /\ ~h.lossy => h.statuses \subseteq {"ok", "error"}
             PROVE  SessionSpec => []RotationSafe
  OBVIOUS
<1>1. RotationInv => RotationSafe
  <2> SUFFICES ASSUME RotationInv PROVE RotationSafe
    OBVIOUS
  <2>1. SessionTypeOK
    BY DEF RotationInv
  <2>2. Careful => Follows(habit)
    BY <2>1 DEF SessionTypeOK, Careful, Follows
  <2>3. ActiveClientStaysIn
    BY <2>2 DEF RotationInv, Admits, ActiveClientStaysIn
  <2>4. ClientInStep
    BY <2>2 DEF RotationInv, ClientInStep, ClientFollows
  <2>5. RotatedOutStaysOut
    BY SessionRotationAssumption
    DEF RotationInv, SessionTypeOK, TokensAge, RotatedOutStaysOut, Accepts, Tokens
  <2> QED BY <2>1, <2>3, <2>4, <2>5 DEF RotationSafe
<1> QED BY <1>1, RotationInvariance, PTL
-----------------------------------------------------------------------------
(* The metered allowances (Entitlements) *)

ChatTurns == {t \in Threads : doing[t] \in {"answering", "increment", "reset", "insert", "retry"}}
Admissions == {t \in Threads : doing[t] = "admitting"}

\* A request writes within a window of the time it took, a row is not older
\* than its count, and a turn that found no expired row found a live one.
TurnsDated ==
    /\ anchor # NoRow => anchor <= clock
    /\ anchor = NoRow => count = 0
    /\ \A t \in Threads : doing[t] \in Writing => stamp[t] <= clock /\ clock < stamp[t] + Window
    /\ \A t \in Threads : doing[t] = "insert" => anchor = NoRow \/ Live(anchor, stamp[t])
    /\ \A t \in Threads : doing[t] = "retry" => Live(anchor, stamp[t])

\* The turns under way that a check let through.
Checked == ChatTurns \ unread

\* The turns of a live window and those under way, without the ones that were
\* let through unread.
TurnsFit ==
    /\ \A t \in Checked : ChatLimit > 0
    /\ Live(anchor, clock) =>
          count + Cardinality(Checked) < ChatLimit + Cardinality(Threads) + opened

\* The admitted games of the window and those being admitted.
GamesFit ==
    /\ IsFiniteSet(LiveMarkers(clock))
    /\ Cardinality(LiveMarkers(clock)) + Cardinality(Admissions) < GameLimit + Cardinality(Threads)

MeterInv == MeterTypeOK /\ CountsEveryTurn /\ TurnsDated /\ TurnsFit /\ GamesFit

LEMMA ThreadsCount ==
    /\ Cardinality(Threads) \in Nat \ {0}
    /\ \A S \in SUBSET Threads :
          IsFiniteSet(S) /\ Cardinality(S) \in Nat /\ Cardinality(S) <= Cardinality(Threads)
BY EntitlementsAssumption, FS_CardinalityType, FS_EmptySet, FS_Subset

LEMMA MeterStarts == MeterInit => MeterInv
<1> SUFFICES ASSUME MeterInit PROVE MeterInv
  OBVIOUS
<1> USE EntitlementsAssumption DEF MeterInit
<1>1. MeterTypeOK
  BY DEF MeterTypeOK, Clock
<1>2. CountsEveryTurn /\ TurnsDated
  BY DEF CountsEveryTurn, TurnsDated, Writing
<1>3. Checked = {} /\ Admissions = {} /\ LiveMarkers(clock) = {}
  BY DEF Checked, ChatTurns, Admissions, LiveMarkers, Live
<1>4. TurnsFit
  BY <1>3 DEF TurnsFit, Live
<1>5. GamesFit
  BY <1>3, FS_EmptySet, ThreadsCount DEF GamesFit
<1> QED BY <1>1, <1>2, <1>4, <1>5 DEF MeterInv

\* Steps of the chat allowance, and of the games'.
ChatStep(t) ==
    \/ Chat(t) \/ ChatUnread(t) \/ ChatFails(t) \/ ChatAnswers(t)
    \/ Increment(t) \/ Reset(t) \/ InsertRow(t) \/ Retry(t)

LEMMA MeterTypes == MeterTypeOK /\ [MeterNext]_meterVars => MeterTypeOK'
<1> SUFFICES ASSUME MeterTypeOK, [MeterNext]_meterVars PROVE MeterTypeOK'
  OBVIOUS
<1> USE EntitlementsAssumption
    DEF MeterTypeOK, Clock, chatRow, coached, MoveOn, Over, Unread, CountOne, Writing
<1>1. CASE UNCHANGED meterVars
  BY <1>1 DEF meterVars
<1>2. CASE ClockTicks
  BY <1>2 DEF ClockTicks
<1>3. ASSUME NEW t \in Threads, ChatStep(t)
      PROVE  MeterTypeOK'
  <2>1. CASE Chat(t) \/ ChatUnread(t) \/ ChatFails(t) \/ ChatAnswers(t)
    BY <2>1 DEF Chat, ChatUnread, ChatFails, ChatAnswers
  <2>2. CASE Increment(t) \/ Reset(t) \/ InsertRow(t) \/ Retry(t)
    BY <2>2 DEF Increment, Reset, InsertRow, Retry, FreshWindow
  <2> QED BY <1>3, <2>1, <2>2 DEF ChatStep
<1>4. ASSUME NEW t \in Threads, Admit(t)
      PROVE  MeterTypeOK'
  BY <1>4 DEF Admit, Answer
<1>5. ASSUME NEW t \in Threads, DbFails(t)
      PROVE  MeterTypeOK'
  BY <1>5 DEF DbFails, Answer
<1>6. ASSUME NEW t \in Threads, NEW g \in CoachedGames, Move(t, g) \/ MoveUnread(t, g)
      PROVE  MeterTypeOK'
  BY <1>6 DEF Move, MoveUnread, Answer
<1> QED BY <1>1, <1>2, <1>3, <1>4, <1>5, <1>6 DEF MeterNext, ChatStep

\* Each turn that is recorded is counted once, in the row or in a past window.
LEMMA TurnsCounted ==
    MeterInv /\ [MeterNext]_meterVars => CountsEveryTurn' /\ TurnsDated'
<1> SUFFICES ASSUME MeterInv, [MeterNext]_meterVars PROVE CountsEveryTurn' /\ TurnsDated'
  OBVIOUS
<1> USE EntitlementsAssumption
    DEF MeterInv, MeterTypeOK, Clock, CountsEveryTurn, TurnsDated, chatRow, coached, MoveOn,
        Over, CountOne, Writing, Live
<1>1. CASE UNCHANGED meterVars
  BY <1>1 DEF meterVars
<1>2. CASE ClockTicks
  BY <1>2 DEF ClockTicks, Prompt
<1>3. ASSUME NEW t \in Threads, ChatStep(t)
      PROVE  CountsEveryTurn' /\ TurnsDated'
  <2>1. CASE Chat(t) \/ ChatUnread(t) \/ ChatFails(t) \/ ChatAnswers(t)
    BY <2>1 DEF Chat, ChatUnread, ChatFails, ChatAnswers
  <2>2. CASE Increment(t)
    BY <2>2 DEF Increment
  <2>3. CASE Reset(t)
    BY <2>3 DEF Reset, WindowOver, FreshWindow
  <2>4. CASE InsertRow(t)
    BY <2>4 DEF InsertRow, FreshWindow
  <2>5. CASE Retry(t)
    BY <2>5 DEF Retry
  <2> QED BY <1>3, <2>1, <2>2, <2>3, <2>4, <2>5 DEF ChatStep
<1>4. ASSUME NEW t \in Threads, Admit(t) \/ DbFails(t)
      PROVE  CountsEveryTurn' /\ TurnsDated'
  BY <1>4 DEF Admit, DbFails
<1>5. ASSUME NEW t \in Threads, NEW g \in CoachedGames, Move(t, g) \/ MoveUnread(t, g)
      PROVE  CountsEveryTurn' /\ TurnsDated'
  BY <1>5 DEF Move, MoveUnread
<1> QED BY <1>1, <1>2, <1>3, <1>4, <1>5 DEF MeterNext, ChatStep

\* A turn that ends makes room for the one it counts.
LEMMA TurnsStayFit == MeterInv /\ [MeterNext]_meterVars => TurnsFit'
<1> SUFFICES ASSUME MeterInv, [MeterNext]_meterVars PROVE TurnsFit'
  OBVIOUS
<1> USE EntitlementsAssumption, ThreadsCount
<1>0. /\ count \in Nat /\ clock \in Nat /\ doing \in [Threads -> {"idle", "answering"} \union Writing]
      /\ \A t \in Threads : stamp[t] \in Nat
      /\ anchor \in Nat \union {NoRow} /\ opened \in Nat /\ unread \in SUBSET Threads
  BY DEF MeterInv, MeterTypeOK, Clock
<1>a. Checked \in SUBSET Threads /\ Checked' \in SUBSET Threads
  BY DEF Checked, ChatTurns
<1>b. ASSUME NEW t \in Checked, Checked' = Checked \ {t}
      PROVE  Cardinality(Checked') = Cardinality(Checked) - 1
  BY <1>a, <1>b, FS_RemoveElement
<1>1. CASE UNCHANGED meterVars
  BY <1>1 DEF meterVars, chatRow, MeterInv, TurnsFit, Checked, ChatTurns, Live
<1>2. CASE ClockTicks
  <2>1. Checked' = Checked /\ count' = count /\ anchor' = anchor /\ opened' = opened
    BY <1>2 DEF ClockTicks, chatRow, Checked, ChatTurns
  <2>2. Live(anchor', clock') => Live(anchor, clock)
    BY <1>0, <1>2, <2>1 DEF ClockTicks, Live
  <2> QED BY <2>1, <2>2 DEF MeterInv, TurnsFit
<1>3. ASSUME NEW t \in Threads, Chat(t) PROVE TurnsFit'
  <2>1. ChatLimit > 0
    BY <1>0, <1>3 DEF Chat, MayChat
  <2>2. Live(anchor', clock') => count' < ChatLimit
    BY <1>3 DEF Chat, MayChat, chatRow, Live
  <2>3. count' = count /\ opened' = opened
    BY <1>3 DEF Chat, chatRow
  <2> QED BY <1>0, <1>a, <2>1, <2>2, <2>3 DEF TurnsFit
<1>4. ASSUME NEW t \in Threads,
             ChatUnread(t) \/ ChatFails(t) \/ ChatAnswers(t) \/ DbFails(t) \/ Admit(t)
      PROVE  TurnsFit'
  <2>1. Checked' \subseteq Checked
    BY <1>0, <1>4 DEF Checked, ChatTurns, ChatUnread, ChatFails, ChatAnswers, DbFails, Admit,
                      Over, MoveOn, Writing
  <2>2. Cardinality(Checked') <= Cardinality(Checked)
    BY <1>a, <2>1, FS_Subset
  <2>3. UNCHANGED <<clock, count, anchor, opened>>
    BY <1>4 DEF ChatUnread, ChatFails, ChatAnswers, DbFails, Admit, chatRow
  <2> QED BY <1>0, <1>a, <2>1, <2>2, <2>3 DEF MeterInv, TurnsFit, Live
<1>5. ASSUME NEW t \in Threads, Increment(t) \/ Reset(t) \/ InsertRow(t) \/ Retry(t)
      PROVE  TurnsFit'
  <2>1. t \in ChatTurns /\ clock' = clock
    BY <1>5 DEF ChatTurns, Increment, Reset, InsertRow, Retry
  <2>2. CASE doing'[t] # "idle"
    <3>1. Checked' = Checked
      BY <1>0, <1>5, <2>2 DEF Checked, ChatTurns, Increment, Reset, InsertRow, Retry, Over, MoveOn
    <3>2. count' = count /\ anchor' = anchor /\ opened' = opened
      BY <1>0, <1>5, <2>2 DEF Increment, Reset, InsertRow, Retry, Over, MoveOn, chatRow
    <3> QED BY <2>1, <3>1, <3>2 DEF MeterInv, TurnsFit, Live
  <2>3. CASE doing'[t] = "idle"
    <3>1. Checked' = Checked \ {t}
      BY <1>0, <1>5, <2>3
      DEF Checked, ChatTurns, Increment, Reset, InsertRow, Retry, Over, MoveOn
    <3>2. \/ anchor' = anchor /\ count' = count + 1 /\ opened' = opened + Unread(t)
          \/ count' = 1 /\ opened' \in Nat /\ opened' >= Unread(t)
      <4>1. doing'[t] = "idle" /\ doing \in [Threads -> {"idle", "answering"} \union Writing]
        BY <1>0, <2>3
      <4>2. /\ anchor = NoRow => count = 0
            /\ doing[t] = "retry" => Live(anchor, stamp[t])
        BY DEF MeterInv, TurnsDated
      <4>3. CASE Increment(t)
        BY <4>1, <4>3 DEF Increment, MoveOn, CountOne
      <4>4. CASE Reset(t)
        BY <4>1, <4>4 DEF Reset, MoveOn, Unread
      <4>5. CASE InsertRow(t)
        BY <4>1, <4>2, <4>5, <1>0 DEF InsertRow, MoveOn, CountOne, Unread
      <4>6. CASE Retry(t)
        BY <4>2, <4>6 DEF Retry, CountOne
      <4> QED BY <1>5, <4>3, <4>4, <4>5, <4>6
    <3>3. CASE t \in unread
      <4>1. Unread(t) = 1 /\ Checked' = Checked /\ t \notin Checked
        BY <2>1, <3>1, <3>3 DEF Unread, Checked
      <4>2. Cardinality(Checked) < Cardinality(Threads)
        <5>1. Checked \subseteq Threads \ {t} /\ IsFiniteSet(Threads \ {t})
          BY <1>a, <4>1, FS_Subset
        <5>2. Cardinality(Threads \ {t}) = Cardinality(Threads) - 1
          BY <1>5, FS_RemoveElement
        <5> QED BY <5>1, <5>2, <1>a, FS_Subset
      <4> QED BY <1>0, <1>a, <2>1, <3>2, <4>1, <4>2 DEF MeterInv, TurnsFit, Live
    <3>4. CASE t \notin unread
      <4>1. Unread(t) = 0 /\ t \in Checked
        BY <2>1, <3>4 DEF Unread, Checked
      <4>2. Cardinality(Checked') = Cardinality(Checked) - 1
        BY <1>b, <3>1, <4>1
      <4>3. ChatLimit > 0
        BY <4>1 DEF MeterInv, TurnsFit
      <4> QED BY <1>0, <1>a, <2>1, <3>1, <3>2, <4>1, <4>2, <4>3 DEF MeterInv, TurnsFit, Live
    <3> QED BY <3>3, <3>4
  <2> QED BY <2>2, <2>3
<1>6. ASSUME NEW t \in Threads, NEW g \in CoachedGames, Move(t, g) \/ MoveUnread(t, g)
      PROVE  TurnsFit'
  <2>1. Checked' = Checked
    BY <1>0, <1>6 DEF Checked, ChatTurns, Move, MoveUnread, MoveOn
  <2> QED BY <1>6, <2>1 DEF Move, MoveUnread, chatRow, MeterInv, TurnsFit, Live
<1> QED BY <1>1, <1>2, <1>3, <1>4, <1>5, <1>6 DEF MeterNext

\* An admission that ends makes room for the marker it leaves.
LEMMA GamesStayFit == MeterInv /\ [MeterNext]_meterVars => GamesFit'
<1> SUFFICES ASSUME MeterInv, [MeterNext]_meterVars PROVE GamesFit'
  OBVIOUS
<1> USE EntitlementsAssumption, ThreadsCount
<1>0. /\ clock \in Nat /\ doing \in [Threads -> {"idle", "answering"} \union Writing]
      /\ markers \in [CoachedGames -> Nat \union {NoRow}]
      /\ IsFiniteSet(LiveMarkers(clock)) /\ Cardinality(LiveMarkers(clock)) \in Nat
  BY FS_CardinalityType DEF MeterInv, MeterTypeOK, Clock, GamesFit
<1>a. Admissions \in SUBSET Threads /\ Admissions' \in SUBSET Threads
  BY DEF Admissions
<1>1. CASE UNCHANGED meterVars
  BY <1>1 DEF meterVars, chatRow, MeterInv, GamesFit, Admissions, LiveMarkers, Live
<1>2. ASSUME clock' \in Nat, clock' >= clock, markers' = markers, Admissions' \subseteq Admissions
      PROVE  GamesFit'
  <2>1. LiveMarkers(clock)' \subseteq LiveMarkers(clock)
    BY <1>0, <1>2 DEF LiveMarkers, Live
  <2>2. /\ IsFiniteSet(LiveMarkers(clock)') /\ Cardinality(LiveMarkers(clock)') \in Nat
        /\ Cardinality(LiveMarkers(clock)') <= Cardinality(LiveMarkers(clock))
    BY <1>0, <2>1, FS_Subset, FS_CardinalityType
  <2>3. Cardinality(Admissions') <= Cardinality(Admissions)
    BY <1>2, <1>a, FS_Subset
  <2> QED BY <1>0, <1>a, <2>2, <2>3 DEF MeterInv, GamesFit
<1>3. CASE ClockTicks
  BY <1>0, <1>2, <1>3 DEF ClockTicks, coached, Admissions
<1>4. ASSUME NEW t \in Threads, ChatStep(t) PROVE GamesFit'
  <2>1. Admissions' = Admissions
    BY <1>0, <1>4 DEF ChatStep, Admissions, Chat, ChatUnread, ChatFails, ChatAnswers, Increment,
                      Reset, InsertRow, Retry, Over, MoveOn
  <2>2. UNCHANGED <<clock, markers>>
    BY <1>4 DEF ChatStep, Chat, ChatUnread, ChatFails, ChatAnswers, Increment, Reset, InsertRow,
                Retry, coached
  <2> QED BY <1>0, <1>2, <2>1, <2>2
<1>5. ASSUME NEW t \in Threads, DbFails(t) PROVE GamesFit'
  <2>1. Admissions' \subseteq Admissions
    BY <1>0, <1>5 DEF Admissions, DbFails, Over, MoveOn
  <2> QED BY <1>0, <1>2, <1>5, <2>1 DEF DbFails
<1>6. ASSUME NEW t \in Threads, Admit(t) PROVE GamesFit'
  <2>1. Admissions' = Admissions \ {t} /\ t \in Admissions /\ clock' = clock
    BY <1>0, <1>6 DEF Admissions, Admit, Over, MoveOn
  <2>2. Cardinality(Admissions') = Cardinality(Admissions) - 1
    BY <1>a, <2>1, FS_RemoveElement
  <2>3. LiveMarkers(clock)' \subseteq LiveMarkers(clock) \union {game[t]}
    BY <1>0, <1>6 DEF LiveMarkers, Live, Admit
  <2>4. /\ IsFiniteSet(LiveMarkers(clock) \union {game[t]})
        /\ Cardinality(LiveMarkers(clock) \union {game[t]}) \in Nat
        /\ Cardinality(LiveMarkers(clock) \union {game[t]}) <= Cardinality(LiveMarkers(clock)) + 1
    <3> DEFINE L == LiveMarkers(clock)
    <3>1. /\ IsFiniteSet(L \union {game[t]})
          /\ Cardinality(L \union {game[t]}) =
               IF game[t] \in L THEN Cardinality(L) ELSE Cardinality(L) + 1
      BY <1>0, FS_AddElement, Zenon
    <3> QED BY <1>0, <3>1
  <2>5. /\ IsFiniteSet(LiveMarkers(clock)') /\ Cardinality(LiveMarkers(clock)') \in Nat
        /\ Cardinality(LiveMarkers(clock)') <= Cardinality(LiveMarkers(clock)) + 1
    BY <1>0, <2>3, <2>4, FS_Subset, FS_CardinalityType
  <2> QED BY <1>0, <1>a, <2>2, <2>5 DEF MeterInv, GamesFit
<1>7. ASSUME NEW t \in Threads, NEW g \in CoachedGames, Move(t, g) PROVE GamesFit'
  <2>1. LiveMarkers(clock)' = LiveMarkers(clock)
    BY <1>7 DEF LiveMarkers, Live, Move
  <2>2. CASE SlotFree
    BY <1>0, <1>a, <2>1, <2>2 DEF SlotFree, GamesFit
  <2>3. CASE ~SlotFree
    BY <1>0, <1>2, <1>7, <2>3 DEF Move, Admissions
  <2> QED BY <2>2, <2>3
<1>8. ASSUME NEW t \in Threads, NEW g \in CoachedGames, MoveUnread(t, g) PROVE GamesFit'
  BY <1>0, <1>2, <1>8 DEF MoveUnread, Admissions
<1> QED BY <1>1, <1>3, <1>4, <1>5, <1>6, <1>7, <1>8 DEF MeterNext, ChatStep

\* The inductive invariant holds for any number of requests, games and ticks.
THEOREM MeterInvariance == MeterSpec => []MeterInv
<1>1. MeterInv /\ [MeterNext]_meterVars => MeterInv'
  BY MeterTypes, TurnsCounted, TurnsStayFit, GamesStayFit DEF MeterInv
<1> QED BY <1>1, MeterStarts, PTL DEF MeterSpec

\* However a window's increments, resets and inserts interleave, each recorded
\* turn is counted once; a window passes its limit by less than the number of
\* requests and of the turns that it counts and a failed check let through.
THEOREM MeterIsSafe == MeterSpec => []MeterSafe
<1>1. MeterInv => MeterSafe
  <2> SUFFICES ASSUME MeterInv PROVE MeterSafe
    OBVIOUS
  <2>1. Checked \in SUBSET Threads /\ Admissions \in SUBSET Threads
    BY DEF Checked, ChatTurns, Admissions
  <2>2. TurnsBounded
    BY <2>1, ThreadsCount, EntitlementsAssumption DEF MeterInv, MeterTypeOK, TurnsFit, TurnsBounded
  <2>3. Cardinality(LiveMarkers(clock)) \in Nat
    BY FS_CardinalityType DEF MeterInv, GamesFit
  <2>4. AdmissionsBounded
    BY <2>1, <2>3, ThreadsCount, EntitlementsAssumption DEF MeterInv, GamesFit, AdmissionsBounded
  <2> QED BY <2>2, <2>4 DEF MeterInv, MeterSafe
<1> QED BY <1>1, MeterInvariance, PTL
-----------------------------------------------------------------------------
(* The plan (Billing) *)

EventTypes == Grants \union Revokes \union {"CANCELLATION", "BILLING_ISSUE"}

\* The last event that changes the plan says what the store says.
StoreSpeaks ==
    /\ subscription # "none" => sent # <<>> /\ sent[1] \in Grants
    /\ \A n \in LastChange : sent[n] \in Grants <=> subscription \in Entitled

\* The plan is what the event applied last made it; without an expiration a
\* grant that was answered and named the player was applied.
EventsApplied ==
    /\ lastApplied # 0 => /\ Changes(sent[lastApplied])
                          /\ free <=> sent[lastApplied] \notin Grants
    /\ (\A n \in DOMAIN sent : sent[n] # "EXPIRATION") /\ free =>
          \A n \in DOMAIN sent : sent[n] \in Grants => n \in pending \/ n \in unmatched

BillingInv ==
    /\ sent \in Seq(EventTypes) /\ free \in BOOLEAN
    /\ BillingTypeOK /\ StoreSpeaks /\ EventsApplied

LEMMA BillingStarts == BillingInit => BillingInv
BY BillingAssumption
DEF BillingInit, BillingInv, BillingTypeOK, StoreSpeaks, EventsApplied, LastChange, Entitled

\* What the store does to a subscription, and the event it sends about it.
LEMMA LifeSteps ==
    ASSUME NEW l \in Life
    PROVE  /\ l[2] \in EventTypes
           /\ l[1] = "none" => l[2] \in Grants
           /\ l[3] \in {"EXPIRED"} \union Entitled
           /\ l[2] \in Grants => l[3] \in Entitled
           /\ l[2] \in Revokes => l[3] \notin Entitled
           /\ ~Changes(l[2]) => (l[1] \in Entitled <=> l[3] \in Entitled)
BY DEF Life, EventTypes, Grants, Revokes, Entitled, Changes

LEMMA StoreEventOK == BillingInv /\ StoreEvent => BillingInv'
<1> SUFFICES ASSUME BillingInv, StoreEvent PROVE BillingInv'
  OBVIOUS
<1> DEFINE m == Len(sent) + 1
<1>1. PICK l \in Life : l[1] = subscription /\ subscription' = l[3] /\ sent' = Append(sent, l[2])
  BY DEF StoreEvent
<1>2. /\ sent' \in Seq(EventTypes) /\ Len(sent') = m /\ m \in Nat \ {0} /\ sent'[m] = l[2]
      /\ DOMAIN sent = 1..Len(sent) /\ DOMAIN sent' = 1..m
      /\ \A n \in DOMAIN sent : sent'[n] = sent[n] /\ n < m
  BY <1>1, LifeSteps DEF BillingInv
<1>3. /\ pending' = pending \union {m}
      /\ unmatched' \in {unmatched, unmatched \union {m}}
      /\ UNCHANGED <<free, verifying, failures, lastApplied>>
  BY DEF StoreEvent
<1>4. BillingTypeOK'
  BY <1>1, <1>2, <1>3, LifeSteps DEF BillingInv, BillingTypeOK, Entitled
<1>5. sent'[1] \in Grants
  BY <1>1, <1>2, LifeSteps DEF BillingInv, BillingTypeOK, StoreSpeaks
<1>6. CASE Changes(l[2])
  <2>1. LastChange' = {m}
    BY <1>2, <1>6 DEF LastChange
  <2>2. l[2] \in Grants <=> l[3] \in Entitled
    BY <1>6, LifeSteps DEF Changes
  <2> QED BY <1>1, <1>2, <1>3, <1>4, <1>5, <2>1, <2>2
          DEF BillingInv, BillingTypeOK, StoreSpeaks, EventsApplied
<1>7. CASE ~Changes(l[2])
  <2>1. LastChange' = LastChange /\ LastChange \subseteq DOMAIN sent
    BY <1>2, <1>7 DEF LastChange
  <2>2. l[1] \in Entitled <=> l[3] \in Entitled
    BY <1>7, LifeSteps
  <2> QED BY <1>1, <1>2, <1>3, <1>4, <1>5, <2>1, <2>2
          DEF BillingInv, BillingTypeOK, StoreSpeaks, EventsApplied
<1> QED BY <1>6, <1>7

LEMMA WebhookOK ==
    ASSUME BillingInv, NEW n \in 1..MaxEvents, Webhook(n)
    PROVE  BillingInv'
<1>1. n \in DOMAIN sent /\ n # 0 /\ n \in 0..Len(sent)
  BY DEF BillingInv, BillingTypeOK, Webhook
<1>2. UNCHANGED <<subscription, sent, unmatched, verifying>> /\ pending' \subseteq pending
  BY DEF Webhook
<1>3. \A k \in pending : k \in pending' \/ k = n
  BY DEF Webhook
<1>4. failures' \in 0..MaxFailures
  BY BillingAssumption DEF Webhook, BillingInv, BillingTypeOK
<1>5. subscription # "none"
  BY <1>1 DEF BillingInv, BillingTypeOK
<1>6. StoreSpeaks'
  BY <1>2 DEF BillingInv, StoreSpeaks, LastChange
<1>7. CASE Changes(sent[n]) /\ n \notin unmatched
  <2>1. free' = (sent[n] \notin Grants) /\ lastApplied' = n
    BY <1>7 DEF Webhook
  <2>2. sent[n] \notin Grants => sent[n] = "EXPIRATION"
    BY <1>7 DEF Changes, Revokes
  <2> QED BY <1>1, <1>2, <1>3, <1>4, <1>5, <1>6, <1>7, <2>1, <2>2
          DEF BillingInv, BillingTypeOK, EventsApplied
<1>8. CASE ~(Changes(sent[n]) /\ n \notin unmatched)
  <2>1. UNCHANGED <<free, lastApplied>> /\ (sent[n] \notin Grants \/ n \in unmatched)
    BY <1>8 DEF Webhook, Changes
  <2> QED BY <1>1, <1>2, <1>3, <1>4, <1>5, <1>6, <2>1
          DEF BillingInv, BillingTypeOK, EventsApplied
<1> QED BY <1>7, <1>8

\* The inductive invariant holds for any number of events and failures.
THEOREM BillingInvariance == BillingSpec => []BillingInv
<1>1. BillingInv /\ [BillingNext]_billingVars => BillingInv'
  <2> SUFFICES ASSUME BillingInv, [BillingNext]_billingVars PROVE BillingInv'
    OBVIOUS
  <2> USE DEF BillingInv, BillingTypeOK, StoreSpeaks, EventsApplied, LastChange
  <2>1. CASE UNCHANGED billingVars
    BY <2>1 DEF billingVars
  <2>2. CASE AskGoogle
    BY <2>2 DEF AskGoogle
  <2>3. CASE ActivatePlan
    <3>1. UNCHANGED <<subscription, sent, pending, unmatched, failures>> /\ subscription # "none"
      BY <2>3 DEF ActivatePlan
    <3>2. free' = FALSE /\ lastApplied' = 0 /\ lastApplied' \in 0..Len(sent)
      BY <2>3 DEF ActivatePlan
    <3> QED BY <3>1, <3>2
  <2>4. ASSUME NEW n \in 1..MaxEvents, WriteFails(n) PROVE BillingInv'
    BY <2>4, BillingAssumption DEF WriteFails
  <2> QED BY <2>1, <2>2, <2>3, <2>4, StoreEventOK, WebhookOK DEF BillingNext
<1> QED BY <1>1, BillingStarts, PTL DEF BillingSpec

\* Whatever is lost, repeated or overtaken: when the event that changes the
\* plan last was applied last, the plan is what the store says, and a purchase
\* that never expired is not left free if one of its grants named the player.
THEOREM BillingIsSafe == BillingSpec => []BillingSafe
<1>1. BillingInv => BillingSafe
  <2> SUFFICES ASSUME BillingInv PROVE BillingSafe
    OBVIOUS
  <2>1. PlanTracksStore
    <3>1. \A n \in LastChange : n # 0
      BY DEF BillingInv, LastChange
    <3> QED BY <3>1 DEF BillingInv, PlanTracksStore, StoreSpeaks, EventsApplied
  <2>2. NoGrantLost
    <3>1. subscription # "none" => 1 \in DOMAIN sent /\ sent[1] \in Grants
      BY DEF BillingInv, StoreSpeaks
    <3> QED BY <3>1 DEF BillingInv, BillingTypeOK, NoGrantLost, EventsApplied
  <2> QED BY <2>1, <2>2 DEF BillingInv, BillingSafe
<1> QED BY <1>1, BillingInvariance, PTL
-----------------------------------------------------------------------------
(* The start of the server (ServerBoot) *)

Schemas == [tables : BOOLEAN, columns : SUBSET Columns, indexes : SUBSET Indexes,
            fks : [Fks -> {"plain", "cascade"}]]

Processes == [at : Places, step : 1..(Len(Migrations) + 1), pass : {1, 2},
              found : {{}, {TRUE}, {FALSE}}, rows : SUBSET Fks,
              swapping : Fks \union {NoFk}, pool : {"none", "up"},
              app : BOOLEAN, verifier : BOOLEAN]

\* What a step of the migrations leaves in the schema.
Done(d, i) ==
    IF Migrations[i].kind = "column" THEN Migrations[i].on \in d.columns
    ELSE (Migrations[i].partial /\ ~postgres) \/ Migrations[i].on \in d.indexes

\* Nothing of the schema is ever taken back.
Grows(d, e) ==
    d.tables => e.tables /\ d.columns \subseteq e.columns /\ d.indexes \subseteq e.indexes

\* A process has done the steps behind it, on tables that exist.
Migrated(s, d) ==
    /\ s.at \notin {"down", "create"} \/ s.found = {TRUE} => d.tables
    /\ s.at = "migrate" => \A i \in 1..s.step - 1 : Done(d, i)
    /\ s.at \in {"retrofit", "janitors", "engine", "serving"} =>
          \A i \in DOMAIN Migrations : Done(d, i)

\* It swaps constraints only while it retrofits, and before it is at the
\* janitors its second pass is over.
Retrofits(s) ==
    /\ s.at # "retrofit" => s.rows = {} /\ s.swapping = NoFk
    /\ s.at \in {"janitors", "engine", "serving"} => s.pass = 2

\* The references to the pool are made in one order.
RefersToPool(s) ==
    /\ s.at \notin {"engine", "serving"} => s.pool = "none"
    /\ s.pool = "none" => s.app = FALSE
    /\ s.app = FALSE => s.verifier = FALSE
    /\ s.at = "serving" /\ s.pool = "up" => s.verifier = TRUE

BootInv ==
    /\ postgres \in BOOLEAN /\ safe \in BOOLEAN /\ duplicates \subseteq Indexes
    /\ db \in Schemas /\ proc \in [Servers -> Processes]
    /\ \A p \in Servers : Migrated(proc[p], db) /\ Retrofits(proc[p]) /\ RefersToPool(proc[p])

LEMMA MigrationSteps ==
    /\ Len(Migrations) \in Nat /\ DOMAIN Migrations = 1..Len(Migrations)
    /\ \A i \in DOMAIN Migrations :
          /\ Migrations[i].kind \in {"column", "index"}
          /\ Migrations[i].kind = "column" => Migrations[i].on \in Columns
          /\ Migrations[i].kind = "index" => Migrations[i].on \in Indexes
<1>1. Len(Migrations) \in Nat /\ DOMAIN Migrations = 1..Len(Migrations)
  BY ServerBootAssumption
<1>2. \A i \in DOMAIN Migrations : Migrations[i].kind \in {"column", "index"}
  BY ServerBootAssumption
<1> QED BY <1>1, <1>2 DEF Columns, Indexes, IndexSteps

\* What a process has done stays done.
LEMMA StaysMigrated ==
    ASSUME NEW s \in Processes, NEW d, NEW e, Migrated(s, d), Grows(d, e)
    PROVE  Migrated(s, e)
<1>1. ASSUME NEW i, d.tables, Done(d, i) PROVE Done(e, i)
  BY <1>1 DEF Grows, Done
<1> QED BY <1>1 DEF Migrated, Grows

LEMMA DownProcess ==
    Down \in Processes /\ \A d : Migrated(Down, d) /\ Retrofits(Down) /\ RefersToPool(Down)
<1>1. Down \in Processes
  BY MigrationSteps DEF Down, Processes, Places, NoFk
<1>2. /\ Down.at = "down" /\ Down.found = {} /\ Down.rows = {} /\ Down.swapping = NoFk
      /\ Down.pool = "none" /\ Down.app = FALSE /\ Down.verifier = FALSE
  BY DEF Down
<1>3. {} # {TRUE}
  OBVIOUS
<1> QED BY <1>1, <1>2, <1>3 DEF Migrated, Retrofits, RefersToPool

ProcessOK(s, d) == s \in Processes /\ Migrated(s, d) /\ Retrofits(s) /\ RefersToPool(s)

\* A step of process p: the schema grows, p alone moves.
BootStep(p) ==
    /\ db' \in Schemas /\ Grows(db, db')
    /\ \E s : Becomes(p, s) /\ ProcessOK(s, db')
    /\ UNCHANGED <<postgres, safe, duplicates>>

\* Look at the record of one process.
LEMMA ProcessRecord ==
    ASSUME NEW s \in Processes
    PROVE  /\ s.at \in Places /\ s.step \in 1..(Len(Migrations) + 1) /\ s.pass \in {1, 2}
           /\ s.found \in {{}, {TRUE}, {FALSE}} /\ s.rows \subseteq Fks
           /\ s.swapping \in Fks \union {NoFk} /\ s.pool \in {"none", "up"}
           /\ s.app \in BOOLEAN /\ s.verifier \in BOOLEAN
BY DEF Processes

LEMMA SchemaGrows ==
    ASSUME NEW d \in Schemas
    PROVE  /\ Grows(d, d)
           /\ \A c \in Columns : /\ [d EXCEPT !.columns = @ \union {c}] \in Schemas
                                 /\ Grows(d, [d EXCEPT !.columns = @ \union {c}])
                                 /\ c \in [d EXCEPT !.columns = @ \union {c}].columns
           /\ \A i \in Indexes : /\ [d EXCEPT !.indexes = @ \union {i}] \in Schemas
                                 /\ Grows(d, [d EXCEPT !.indexes = @ \union {i}])
                                 /\ i \in [d EXCEPT !.indexes = @ \union {i}].indexes
           /\ \A f \in Fks : /\ [d EXCEPT !.fks[f] = "cascade"] \in Schemas
                             /\ Grows(d, [d EXCEPT !.fks[f] = "cascade"])
BY DEF Schemas, Grows

\* An aborted or stopped process leaves the schema as it is.
LEMMA AbortStep ==
    ASSUME BootInv, NEW p \in Servers, Aborts(p), UNCHANGED <<postgres, safe, duplicates>>
    PROVE  BootStep(p)
BY DownProcess, SchemaGrows DEF Aborts, BootInv, BootStep, ProcessOK

\* A step that leaves the schema alone.
LEMMA QuietStep ==
    ASSUME BootInv, NEW p \in Servers, NEW s, Becomes(p, s), ProcessOK(s, db),
           UNCHANGED <<db, postgres, safe, duplicates>>
    PROVE  BootStep(p)
BY SchemaGrows DEF BootInv, BootStep

LEMMA CreateSteps ==
    ASSUME BootInv, NEW p \in Servers, StartWorker(p) \/ LookAtTables(p) \/ CreateTables(p)
    PROVE  BootStep(p)
<1> USE DEF theRest, deployment
<1>0. ProcessOK(proc[p], db) /\ db.tables \in BOOLEAN
  BY DEF BootInv, ProcessOK, Schemas
<1>1. CASE StartWorker(p)
  <2> DEFINE s == [Down EXCEPT !.at = "create"]
  <2>1. s \in Processes
    BY DownProcess DEF Processes, Places
  <2>2. /\ s.at = "create" /\ s.found = {} /\ s.rows = {} /\ s.swapping = NoFk
        /\ s.pool = "none" /\ s.app = FALSE /\ s.verifier = FALSE
    BY DEF Down
  <2>3. ProcessOK(s, db)
    BY <2>1, <2>2 DEF ProcessOK, Migrated, Retrofits, RefersToPool
  <2> QED BY <1>1, <2>3, QuietStep DEF StartWorker
<1>2. CASE LookAtTables(p)
  <2> DEFINE s == [proc[p] EXCEPT !.found = {db.tables}]
  <2>1. s \in Processes
    BY <1>0 DEF Processes, ProcessOK
  <2>2. /\ s.at = "create" /\ s.found = {db.tables} /\ s.rows = proc[p].rows
        /\ s.swapping = proc[p].swapping /\ s.pool = proc[p].pool /\ s.app = proc[p].app
        /\ s.verifier = proc[p].verifier
    BY <1>0, <1>2 DEF LookAtTables, Processes, ProcessOK
  <2>3. {db.tables} = {TRUE} => db.tables
    BY <1>0
  <2>4. Migrated(s, db)
    BY <2>2, <2>3 DEF Migrated
  <2>5. proc[p].at = "create"
    BY <1>2 DEF LookAtTables
  <2>6. ProcessOK(s, db)
    BY <1>0, <2>1, <2>2, <2>4, <2>5 DEF ProcessOK, Retrofits, RefersToPool
  <2> QED BY <1>2, <2>6, QuietStep DEF LookAtTables, Looks
<1>3. CASE CreateTables(p) /\ ~(Found(p, FALSE) /\ db.tables)
  <2> DEFINE s == [proc[p] EXCEPT !.at = "migrate", !.found = {}, !.step = 1]
  <2>1. Becomes(p, s) /\ db' = (IF Found(p, TRUE) THEN db ELSE Created)
        /\ UNCHANGED <<postgres, safe, duplicates>>
    BY <1>3 DEF CreateTables
  <2>2. Created \in Schemas /\ Created.tables
    BY DEF Created, Schemas, Indexes
  <2>3. proc[p].found \in {{TRUE}, {FALSE}} /\ proc[p].at = "create"
    BY <1>0, <1>3 DEF CreateTables, ProcessOK, Processes
  <2>4. Found(p, TRUE) => db.tables
    BY <1>0 DEF Found, ProcessOK, Migrated
  <2>5. db' \in Schemas /\ db'.tables /\ Grows(db, db')
    <3>1. CASE Found(p, TRUE)
      BY <2>1, <2>4, <3>1, SchemaGrows DEF BootInv
    <3>2. CASE ~Found(p, TRUE)
      <4>1. ~db.tables
        BY <1>3, <2>3, <3>2 DEF Found
      <4> QED BY <2>1, <2>2, <3>2, <4>1 DEF Grows
    <3> QED BY <3>1, <3>2
  <2>6. s \in Processes
    <3>1. 1 \in 1..(Len(Migrations) + 1)
      BY MigrationSteps
    <3> QED BY <1>0, <3>1 DEF Processes, ProcessOK, Places
  <2>7. /\ s.at = "migrate" /\ s.found = {} /\ s.step = 1 /\ s.rows = proc[p].rows
        /\ s.swapping = proc[p].swapping /\ s.pool = proc[p].pool /\ s.app = proc[p].app
        /\ s.verifier = proc[p].verifier
    BY <1>0 DEF Processes, ProcessOK
  <2>8. ProcessOK(s, db')
    BY <1>0, <2>3, <2>5, <2>6, <2>7 DEF ProcessOK, Migrated, Retrofits, RefersToPool
  <2> QED BY <2>1, <2>5, <2>8 DEF BootStep
<1>4. CASE CreateTables(p) /\ Found(p, FALSE) /\ db.tables
  BY <1>4, AbortStep DEF CreateTables
<1> QED BY <1>1, <1>2, <1>3, <1>4

\* A process that moves past a step has done it.
LEMMA MovesOn ==
    ASSUME BootInv, NEW p \in Servers, proc[p].at = "migrate", proc[p].step <= Len(Migrations),
           NEW d, d.tables, Grows(db, d), Done(d, proc[p].step)
    PROVE  ProcessOK([proc[p] EXCEPT !.step = @ + 1, !.found = {}], d)
<1> DEFINE s == [proc[p] EXCEPT !.step = @ + 1, !.found = {}]
<1>0. ProcessOK(proc[p], db)
  BY DEF BootInv, ProcessOK
<1>1. s \in Processes
  <2>1. proc[p].step + 1 \in 1..(Len(Migrations) + 1)
    <3>1. proc[p].step \in 1..(Len(Migrations) + 1)
      BY <1>0 DEF ProcessOK, Processes
    <3> QED BY <3>1, MigrationSteps
  <2> QED BY <1>0, <2>1 DEF ProcessOK, Processes
<1>2. /\ s.at = "migrate" /\ s.found = {} /\ s.step = proc[p].step + 1 /\ s.rows = proc[p].rows
      /\ s.swapping = proc[p].swapping /\ s.pool = proc[p].pool /\ s.app = proc[p].app
      /\ s.verifier = proc[p].verifier
  BY <1>0 DEF Processes, ProcessOK
<1>3. Migrated(proc[p], d)
  BY <1>0, StaysMigrated DEF ProcessOK
<1>5. proc[p].step \in Nat
  <2>1. proc[p].step \in 1..(Len(Migrations) + 1)
    BY <1>0 DEF ProcessOK, Processes
  <2> QED BY <2>1, MigrationSteps
<1>4. \A i \in 1..s.step - 1 : Done(d, i)
  BY <1>2, <1>3, <1>5 DEF Migrated
<1> QED BY <1>0, <1>1, <1>2, <1>4 DEF ProcessOK, Migrated, Retrofits, RefersToPool

LEMMA MigrateSteps ==
    ASSUME BootInv, NEW p \in Servers, LookAtColumn(p) \/ EnsureColumn(p) \/ CreateIndex(p)
    PROVE  BootStep(p)
<1> USE DEF theRest, deployment
<1>a. ProcessOK(proc[p], db) /\ db \in Schemas
  BY DEF BootInv, ProcessOK
<1>b. proc[p].at = "migrate" /\ proc[p].step <= Len(Migrations)
  BY DEF LookAtColumn, EnsureColumn, CreateIndex, Migrating
<1>c. proc[p].step \in 1..Len(Migrations)
  <2>1. proc[p].step \in 1..(Len(Migrations) + 1)
    BY <1>a DEF ProcessOK, Processes
  <2> QED BY <1>b, <2>1, MigrationSteps
<1>d. UNCHANGED <<postgres, safe, duplicates>>
  BY DEF LookAtColumn, EnsureColumn, CreateIndex
<1>0. /\ ProcessOK(proc[p], db) /\ db \in Schemas
      /\ proc[p].at = "migrate" /\ proc[p].step <= Len(Migrations)
      /\ proc[p].step \in DOMAIN Migrations
      /\ UNCHANGED <<postgres, safe, duplicates>>
  BY <1>a, <1>b, <1>c, <1>d, MigrationSteps
<1>1. db.tables
  BY <1>0 DEF ProcessOK, Migrated
<1>2. CASE LookAtColumn(p)
  <2> DEFINE b == {Target(p) \in db.columns}
             s == [proc[p] EXCEPT !.found = b]
  <2>1. Becomes(p, s) /\ UNCHANGED db
    BY <1>2 DEF LookAtColumn, Looks
  <2>a. b \in {{}, {TRUE}, {FALSE}}
    <3>1. CASE Target(p) \in db.columns
      BY <3>1, Zenon
    <3>2. CASE Target(p) \notin db.columns
      <4>1. (Target(p) \in db.columns) = FALSE
        BY <3>2
      <4> QED BY <4>1, Zenon
    <3> QED BY <3>1, <3>2
  <2> HIDE DEF b
  <2>2. s \in Processes
    BY <1>0, <2>a DEF Processes, ProcessOK
  <2>3. /\ s.at = "migrate" /\ s.step = proc[p].step /\ s.rows = proc[p].rows
        /\ s.swapping = proc[p].swapping /\ s.pool = proc[p].pool /\ s.app = proc[p].app
        /\ s.verifier = proc[p].verifier
    BY <1>0 DEF Processes, ProcessOK
  <2>4. ProcessOK(s, db)
    BY <1>0, <1>1, <2>2, <2>3 DEF ProcessOK, Migrated, Retrofits, RefersToPool
  <2> QED BY <1>0, <2>1, <2>4, QuietStep
<1>3. CASE EnsureColumn(p)
  <2>1. CASE Found(p, FALSE) /\ Target(p) \in db.columns
    BY <1>0, <1>3, <2>1, AbortStep DEF EnsureColumn, AddColumn
  <2>2. CASE ~(Found(p, FALSE) /\ Target(p) \in db.columns)
    <3>1. Adds(p)
      BY <1>3, <2>2 DEF EnsureColumn, AddColumn
    <3>2. Target(p) \in Columns /\ Migrations[proc[p].step].kind = "column"
      BY <1>0, <1>3, MigrationSteps DEF EnsureColumn, Migrating, Target
    <3>3. db' \in Schemas /\ Grows(db, db') /\ Target(p) \in db'.columns
      BY <1>0, <3>1, <3>2, SchemaGrows DEF Adds
    <3>4. db'.tables /\ Done(db', proc[p].step)
      BY <1>1, <3>2, <3>3 DEF Grows, Done, Target
    <3>5. ProcessOK([proc[p] EXCEPT !.step = @ + 1, !.found = {}], db')
      BY <1>0, <3>3, <3>4, MovesOn
    <3> QED BY <1>0, <3>1, <3>3, <3>5 DEF BootStep, Adds, Moves
  <2> QED BY <2>1, <2>2
<1>4. CASE CreateIndex(p)
  <2> DEFINE missing == (Migrations[proc[p].step].partial => postgres) /\ Target(p) \notin db.indexes
  <2>1. CASE missing /\ (Target(p) \in duplicates \/ Target(p) \notin db.columns)
    BY <1>0, <1>4, <2>1, AbortStep DEF CreateIndex
  <2>2. CASE ~(missing /\ (Target(p) \in duplicates \/ Target(p) \notin db.columns))
    <3>1. /\ db' = IF missing THEN [db EXCEPT !.indexes = @ \union {Target(p)}] ELSE db
          /\ Moves(p)
      BY <1>4, <2>2 DEF CreateIndex
    <3>2. Target(p) \in Indexes /\ Migrations[proc[p].step].kind = "index"
      BY <1>0, <1>4, MigrationSteps DEF CreateIndex, Migrating, Target
    <3>3. db' \in Schemas /\ Grows(db, db') /\ (missing => Target(p) \in db'.indexes)
      BY <1>0, <3>1, <3>2, SchemaGrows
    <3>4. Target(p) \in db'.indexes \/ (Migrations[proc[p].step].partial /\ ~postgres)
      BY <1>1, <3>1, <3>3
    <3>5. db'.tables /\ Done(db', proc[p].step)
      BY <1>1, <3>2, <3>3, <3>4 DEF Grows, Done, Target
    <3>6. ProcessOK([proc[p] EXCEPT !.step = @ + 1, !.found = {}], db')
      BY <1>0, <3>3, <3>5, MovesOn
    <3> QED BY <1>0, <3>1, <3>3, <3>6 DEF BootStep, Moves
  <2> QED BY <2>1, <2>2
<1> QED BY <1>2, <1>3, <1>4

\* A process that is past the last step has done every one.
LEMMA AllDone ==
    ASSUME NEW s \in Processes, NEW d, Migrated(s, d),
           (s.at = "migrate" /\ s.step > Len(Migrations)) \/ s.at = "retrofit"
    PROVE  d.tables /\ \A i \in DOMAIN Migrations : Done(d, i)
<1>1. s.step \in 1..(Len(Migrations) + 1) /\ Len(Migrations) \in Nat
      /\ DOMAIN Migrations = 1..Len(Migrations)
  BY ProcessRecord, MigrationSteps
<1>2. s.step > Len(Migrations) => \A i \in DOMAIN Migrations : i \in 1..s.step - 1
  BY <1>1
<1> QED BY <1>2 DEF Migrated

\* After the last step, or the retrofit, the second pass begins or is over.
LEMMA SchemaIsDone ==
    ASSUME BootInv, NEW p \in Servers,
           \/ proc[p].at = "migrate" /\ proc[p].step > Len(Migrations)
           \/ proc[p].at = "retrofit" /\ proc[p].rows = {} /\ proc[p].swapping = NoFk
    PROVE  ProcessOK(SchemaDone(p), db)
<1> DEFINE s == SchemaDone(p)
<1>0. ProcessOK(proc[p], db)
  BY DEF BootInv, ProcessOK
<1>1. s \in Processes
  BY <1>0 DEF SchemaDone, ProcessOK, Processes, Places
<1>2. /\ s.at \in {"create", "janitors"} /\ s.found = proc[p].found /\ s.pass = 2
      /\ s.rows = proc[p].rows /\ s.swapping = proc[p].swapping
      /\ s.pool = proc[p].pool /\ s.app = proc[p].app /\ s.verifier = proc[p].verifier
  BY <1>0 DEF SchemaDone, ProcessOK, Processes
<1>3. db.tables /\ \A i \in DOMAIN Migrations : Done(db, i)
  BY <1>0, AllDone DEF ProcessOK
<1> QED BY <1>0, <1>1, <1>2, <1>3 DEF ProcessOK, Migrated, Retrofits, RefersToPool

LEMMA RetrofitSteps ==
    ASSUME BootInv, NEW p \in Servers,
           LookAtConstraints(p) \/ StartSwap(p) \/ EndSwap(p) \/ RetrofitDone(p)
    PROVE  BootStep(p)
<1> USE DEF theRest, deployment
<1>0. /\ ProcessOK(proc[p], db) /\ db \in Schemas
      /\ UNCHANGED <<postgres, safe, duplicates>>
  BY DEF BootInv, ProcessOK, LookAtConstraints, StartSwap, EndSwap, RetrofitDone
<1>1. CASE LookAtConstraints(p)
  <2>1. UNCHANGED db
    BY <1>1 DEF LookAtConstraints
  <2>2. CASE Becomes(p, SchemaDone(p))
    BY <1>0, <1>1, <2>1, <2>2, SchemaIsDone, QuietStep DEF LookAtConstraints
  <2>3. CASE Becomes(p, [proc[p] EXCEPT !.at = "retrofit", !.rows = {f \in Fks : db.fks[f] # "cascade"}])
    <3> DEFINE r == {f \in Fks : db.fks[f] # "cascade"}
               s == [proc[p] EXCEPT !.at = "retrofit", !.rows = r]
    <3> HIDE DEF r
    <3>1. r \subseteq Fks
      BY DEF r
    <3>2. s \in Processes
      BY <1>0, <3>1 DEF ProcessOK, Processes, Places
    <3>3. /\ s.at = "retrofit" /\ s.pool = proc[p].pool /\ s.app = proc[p].app
          /\ s.verifier = proc[p].verifier
      BY <1>0 DEF ProcessOK, Processes
    <3>4. proc[p].at = "migrate" /\ db.tables /\ \A i \in DOMAIN Migrations : Done(db, i)
      BY <1>0, <1>1, AllDone DEF LookAtConstraints, ProcessOK
    <3>5. ProcessOK(s, db)
      BY <1>0, <3>2, <3>3, <3>4 DEF ProcessOK, Migrated, Retrofits, RefersToPool
    <3> QED BY <1>0, <2>1, <2>3, <3>5, QuietStep DEF r
  <2> QED BY <1>1, <2>2, <2>3 DEF LookAtConstraints
<1>2. CASE StartSwap(p)
  <2>1. PICK f \in proc[p].rows : db' = Dropped(f) /\ Becomes(p, [proc[p] EXCEPT !.swapping = f])
    BY <1>2 DEF StartSwap
  <2> DEFINE s == [proc[p] EXCEPT !.swapping = f]
  <2>2. s \in Processes /\ proc[p].at = "retrofit"
    BY <1>0, <1>2 DEF StartSwap, ProcessOK, Processes
  <2>3. /\ s.at = "retrofit" /\ s.pool = proc[p].pool /\ s.app = proc[p].app
        /\ s.verifier = proc[p].verifier
    BY <1>0, <2>2 DEF ProcessOK, Processes
  <2>4. ProcessOK(s, db)
    BY <1>0, <2>2, <2>3 DEF ProcessOK, Migrated, Retrofits, RefersToPool
  <2> QED BY <1>0, <2>1, <2>4, QuietStep DEF Dropped
<1>3. CASE EndSwap(p)
  <2> DEFINE r == proc[p].rows \ {proc[p].swapping}
             s == [proc[p] EXCEPT !.rows = @ \ {proc[p].swapping}, !.swapping = NoFk]
  <2>1. Becomes(p, s) /\ db' \in {[db EXCEPT !.fks[proc[p].swapping] = "cascade"], db}
        /\ proc[p].swapping # NoFk
    BY <1>3 DEF EndSwap
  <2>2. proc[p].at = "retrofit" /\ proc[p].swapping \in Fks
    BY <1>0, <2>1, ProcessRecord DEF ProcessOK, Retrofits
  <2>3. db' \in Schemas /\ Grows(db, db')
    BY <1>0, <2>1, <2>2, SchemaGrows
  <2>4. s \in Processes
    BY <1>0 DEF ProcessOK, Processes
  <2>5. /\ s.at = "retrofit" /\ s.found = proc[p].found /\ s.step = proc[p].step
        /\ s.pool = proc[p].pool /\ s.app = proc[p].app /\ s.verifier = proc[p].verifier
    BY <1>0, <2>2 DEF ProcessOK, Processes
  <2>6. Migrated(proc[p], db')
    BY <1>0, <2>3, StaysMigrated DEF ProcessOK
  <2>7. ProcessOK(s, db')
    BY <1>0, <2>2, <2>4, <2>5, <2>6 DEF ProcessOK, Migrated, Retrofits, RefersToPool
  <2> QED BY <1>0, <2>1, <2>3, <2>7 DEF BootStep
<1>4. CASE RetrofitDone(p)
  BY <1>0, <1>4, SchemaIsDone, QuietStep DEF RetrofitDone
<1> QED BY <1>1, <1>2, <1>3, <1>4

\* What remains, once the schema is there, moves a process along and sets its
\* references to the pool.
LEMMA EngineSteps ==
    ASSUME BootInv, NEW p \in Servers,
           \/ RunJanitors(p) \/ Frozen(p) \/ StartPool(p) \/ ShareWithApp(p)
           \/ ShareWithVerifier(p) \/ Serve(p) \/ EngineUnusable(p)
    PROVE  BootStep(p)
<1> USE DEF theRest, deployment, InEngine
<1>0. /\ proc[p] \in Processes /\ ProcessOK(proc[p], db) /\ RefersToPool(proc[p])
      /\ proc[p].at \in {"janitors", "engine"}
      /\ UNCHANGED <<postgres, safe, duplicates>>
  BY DEF BootInv, ProcessOK, RunJanitors, Frozen, StartPool, ShareWithApp, ShareWithVerifier,
         Serve, EngineUnusable
<1>1. CASE Frozen(p)
  BY <1>0, <1>1, AbortStep DEF Frozen
<1>2. ASSUME NEW s \in Processes, Becomes(p, s), UNCHANGED db, s.at \in {"engine", "serving"},
             s.pass = proc[p].pass, s.rows = proc[p].rows, s.swapping = proc[p].swapping,
             s.found = proc[p].found, RefersToPool(s)
      PROVE  BootStep(p)
  <2>1. Migrated(s, db) /\ Retrofits(s)
    BY <1>0, <1>2 DEF ProcessOK, Migrated, Retrofits
  <2> QED BY <1>0, <1>2, <2>1, QuietStep DEF ProcessOK
<1>3. CASE RunJanitors(p)
  <2> DEFINE s == [proc[p] EXCEPT !.at = "engine"]
  <2>1. s \in Processes
    BY <1>0 DEF Processes, Places
  <2>2. /\ s.at = "engine" /\ s.pool = proc[p].pool /\ s.app = proc[p].app
        /\ s.verifier = proc[p].verifier
        /\ s.pass = proc[p].pass /\ s.rows = proc[p].rows
        /\ s.swapping = proc[p].swapping /\ s.found = proc[p].found
    BY <1>0 DEF Processes
  <2>3. proc[p].at = "janitors"
    BY <1>3 DEF RunJanitors
  <2>4. RefersToPool(s)
    BY <1>0, <1>3, <2>2, <2>3, ProcessRecord DEF RefersToPool, RunJanitors
  <2>5. Becomes(p, s) /\ UNCHANGED db
    BY <1>3 DEF RunJanitors
  <2> QED BY <1>2, <2>1, <2>2, <2>3, <2>4, <2>5
<1>4. CASE StartPool(p)
  <2> DEFINE s == [proc[p] EXCEPT !.pool = "up"]
  <2>1. s \in Processes
    BY <1>0 DEF Processes, Places
  <2>2. /\ s.at = proc[p].at /\ s.pool = "up" /\ s.app = proc[p].app
        /\ s.verifier = proc[p].verifier
        /\ s.pass = proc[p].pass /\ s.rows = proc[p].rows
        /\ s.swapping = proc[p].swapping /\ s.found = proc[p].found
    BY <1>0 DEF Processes
  <2>3. proc[p].at = "engine"
    BY <1>4 DEF StartPool
  <2>4. RefersToPool(s)
    BY <1>0, <1>4, <2>2, <2>3, ProcessRecord DEF RefersToPool, StartPool
  <2>5. Becomes(p, s) /\ UNCHANGED db
    BY <1>4 DEF StartPool
  <2> QED BY <1>2, <2>1, <2>2, <2>3, <2>4, <2>5
<1>5. CASE ShareWithApp(p)
  <2> DEFINE s == [proc[p] EXCEPT !.app = TRUE]
  <2>1. s \in Processes
    BY <1>0 DEF Processes, Places
  <2>2. /\ s.at = proc[p].at /\ s.pool = proc[p].pool /\ s.app = TRUE
        /\ s.verifier = proc[p].verifier
        /\ s.pass = proc[p].pass /\ s.rows = proc[p].rows
        /\ s.swapping = proc[p].swapping /\ s.found = proc[p].found
    BY <1>0 DEF Processes
  <2>3. proc[p].at = "engine"
    BY <1>5 DEF ShareWithApp
  <2>4. RefersToPool(s)
    BY <1>0, <1>5, <2>2, <2>3, ProcessRecord DEF RefersToPool, ShareWithApp
  <2>5. Becomes(p, s) /\ UNCHANGED db
    BY <1>5 DEF ShareWithApp
  <2> QED BY <1>2, <2>1, <2>2, <2>3, <2>4, <2>5
<1>6. CASE ShareWithVerifier(p)
  <2> DEFINE s == [proc[p] EXCEPT !.verifier = TRUE]
  <2>1. s \in Processes
    BY <1>0 DEF Processes, Places
  <2>2. /\ s.at = proc[p].at /\ s.pool = proc[p].pool /\ s.app = proc[p].app
        /\ s.verifier = TRUE
        /\ s.pass = proc[p].pass /\ s.rows = proc[p].rows
        /\ s.swapping = proc[p].swapping /\ s.found = proc[p].found
    BY <1>0 DEF Processes
  <2>3. proc[p].at = "engine"
    BY <1>6 DEF ShareWithVerifier
  <2>4. RefersToPool(s)
    BY <1>0, <1>6, <2>2, <2>3, ProcessRecord DEF RefersToPool, ShareWithVerifier
  <2>5. Becomes(p, s) /\ UNCHANGED db
    BY <1>6 DEF ShareWithVerifier
  <2> QED BY <1>2, <2>1, <2>2, <2>3, <2>4, <2>5
<1>7. CASE Serve(p)
  <2> DEFINE s == [proc[p] EXCEPT !.at = "serving"]
  <2>1. s \in Processes
    BY <1>0 DEF Processes, Places
  <2>2. /\ s.at = "serving" /\ s.pool = proc[p].pool /\ s.app = proc[p].app
        /\ s.verifier = proc[p].verifier
        /\ s.pass = proc[p].pass /\ s.rows = proc[p].rows
        /\ s.swapping = proc[p].swapping /\ s.found = proc[p].found
    BY <1>0 DEF Processes
  <2>3. proc[p].at = "engine"
    BY <1>7 DEF Serve
  <2>4. RefersToPool(s)
    BY <1>0, <1>7, <2>2, <2>3, ProcessRecord DEF RefersToPool, Serve
  <2>5. Becomes(p, s) /\ UNCHANGED db
    BY <1>7 DEF Serve
  <2> QED BY <1>2, <2>1, <2>2, <2>3, <2>4, <2>5
<1>8. CASE EngineUnusable(p)
  <2> DEFINE s == [WithoutEngine(proc[p]) EXCEPT !.at = "serving"]
  <2>1. s \in Processes
    BY <1>0 DEF Processes, Places, WithoutEngine
  <2>2. /\ s.at = "serving" /\ s.pool = "none" /\ s.app = FALSE /\ s.verifier = FALSE
        /\ s.pass = proc[p].pass /\ s.rows = proc[p].rows
        /\ s.swapping = proc[p].swapping /\ s.found = proc[p].found
    BY <1>0 DEF Processes, WithoutEngine
  <2>3. proc[p].at = "engine"
    BY <1>8 DEF EngineUnusable
  <2>4. RefersToPool(s)
    BY <1>0, <1>8, <2>2, <2>3, ProcessRecord DEF RefersToPool, EngineUnusable
  <2>5. Becomes(p, s) /\ UNCHANGED db
    BY <1>8 DEF EngineUnusable
  <2> QED BY <1>2, <2>1, <2>2, <2>3, <2>4, <2>5
<1> QED BY <1>1, <1>3, <1>4, <1>5, <1>6, <1>7, <1>8

LEMMA BootStarts == BootInit => BootInv
<1> SUFFICES ASSUME BootInit PROVE BootInv
  OBVIOUS
<1>1. proc \in [Servers -> Processes] /\ \A p \in Servers : proc[p] = Down
  BY DownProcess DEF BootInit
<1>2. \A p \in Servers : Migrated(proc[p], db) /\ Retrofits(proc[p]) /\ RefersToPool(proc[p])
  BY <1>1, DownProcess
<1>3. db \in Schemas /\ duplicates \subseteq Indexes
  <2>1. CASE /\ db = [tables |-> FALSE, columns |-> {}, indexes |-> {},
                      fks |-> [f \in Fks |-> "cascade"]]
             /\ duplicates = {}
    BY <2>1 DEF Schemas
  <2>2. ASSUME NEW c \in SUBSET Columns, NEW i \in SUBSET (c \intersect Indexes),
               NEW k \in [Fks -> {"plain", "cascade"}],
               db = [tables |-> TRUE, columns |-> c, indexes |-> i, fks |-> k]
        PROVE  db \in Schemas
    BY <2>2 DEF Schemas
  <2> QED BY <2>1, <2>2 DEF BootInit
<1> QED BY <1>1, <1>2, <1>3 DEF BootInit, BootInv

\* The inductive invariant holds for any number of processes, migrations and
\* ends of a process.
THEOREM BootInvariance == BootSpec => []BootInv
<1>1. BootInv /\ [BootNext]_bootVars => BootInv'
  <2> SUFFICES ASSUME BootInv, [BootNext]_bootVars PROVE BootInv'
    OBVIOUS
  <2>1. CASE UNCHANGED bootVars
    BY <2>1 DEF bootVars, BootInv, Migrated, Done
  <2>2. CASE RowsMadeUnique
    BY <2>2 DEF RowsMadeUnique, deployment, BootInv, Migrated, Done
  <2>3. ASSUME NEW p \in Servers, BootStep(p)
        PROVE  BootInv'
    <3>1. PICK s : Becomes(p, s) /\ ProcessOK(s, db')
      BY <2>3 DEF BootStep
    <3>2. proc' \in [Servers -> Processes]
      BY <3>1 DEF BootInv, Becomes, ProcessOK
    <3>3. ASSUME NEW q \in Servers
          PROVE  Migrated(proc'[q], db') /\ Retrofits(proc'[q]) /\ RefersToPool(proc'[q])
      <4>1. CASE q = p
        BY <3>1, <4>1 DEF BootInv, Becomes, ProcessOK
      <4>2. CASE q # p
        <5>1. proc'[q] = proc[q] /\ proc[q] \in Processes
          BY <3>1, <4>2 DEF BootInv, Becomes
        <5>2. Migrated(proc[q], db')
          BY <2>3, <5>1, StaysMigrated DEF BootStep, BootInv
        <5> QED BY <5>1, <5>2 DEF BootInv
      <4> QED BY <4>1, <4>2
    <3>4. Migrated(proc[p], db)' = Migrated(proc'[p], db')
      BY <2>3 DEF BootStep, Migrated, Done
    <3> QED BY <2>3, <3>2, <3>3 DEF BootStep, BootInv, Migrated, Done
  <2>4. ASSUME NEW p \in Servers, Stopped(p) PROVE BootInv'
    <3>1. BootStep(p)
      BY <2>4, AbortStep DEF Stopped, Aborts, deployment
    <3> QED BY <2>3, <3>1
  <2>5. ASSUME NEW p \in Servers, Boots(p) PROVE BootInv'
    <3>1. BootStep(p)
      BY <2>5, CreateSteps, MigrateSteps, RetrofitSteps, EngineSteps DEF Boots
    <3> QED BY <2>3, <3>1
  <2> QED BY <2>1, <2>2, <2>4, <2>5 DEF BootNext
<1> QED BY <1>1, BootStarts, PTL DEF BootSpec

\* Whichever processes migrate at the same time and wherever one of them stops,
\* a process serves off a whole schema, in which no constraint is missing, and
\* refers to a pool that runs in all three places or in none.
THEOREM BootIsSafe == BootSpec => []BootSafe
<1>1. BootInv => BootSafe
  <2> SUFFICES ASSUME BootInv PROVE BootSafe
    OBVIOUS
  <2>1. BootTypeOK
    <3>1. db.tables \in BOOLEAN /\ db.columns \subseteq Columns /\ db.indexes \subseteq Indexes
      BY DEF BootInv, Schemas
    <3>2. ASSUME NEW p \in Servers
          PROVE  /\ proc[p].pool # "none" => proc[p].at \in {"engine", "serving"}
                 /\ proc[p].at \in {"janitors", "engine", "serving"} =>
                       proc[p].pass = 2 /\ proc[p].rows = {} /\ proc[p].swapping = NoFk
      BY DEF BootInv, RefersToPool, Retrofits
    <3> QED BY <3>1, <3>2 DEF BootTypeOK, BootInv, Processes
  <2>2. ServesWholeSchema
    <3> SUFFICES ASSUME NEW p \in Servers, Serving(p)
                 PROVE  db.columns = Columns /\ WantedIndexes \subseteq db.indexes
      BY DEF ServesWholeSchema
    <3>1. \A i \in DOMAIN Migrations : Done(db, i)
      BY DEF Serving, BootInv, Migrated
    <3>2. db.columns = Columns
      BY <3>1 DEF BootInv, Schemas, Columns, Done
    <3>3. WantedIndexes \subseteq db.indexes
      BY <3>1 DEF WantedIndexes, IndexSteps, Done
    <3> QED BY <3>2, <3>3
  <2>3. NoConstraintLost
    BY DEF BootInv, Schemas, NoConstraintLost
  <2>4. PoolRefsAgree
    <3> SUFFICES ASSUME NEW p \in Servers, Serving(p)
                 PROVE  proc[p].app = (proc[p].pool = "up") /\ proc[p].verifier = (proc[p].pool = "up")
      BY DEF PoolRefsAgree
    <3>1. proc[p] \in Processes /\ RefersToPool(proc[p]) /\ proc[p].at = "serving"
      BY DEF BootInv, Serving
    <3>2. CASE proc[p].pool = "none"
      BY <3>1, <3>2 DEF RefersToPool
    <3>3. CASE proc[p].pool = "up"
      <4>1. proc[p].verifier = TRUE /\ proc[p].app \in BOOLEAN /\ ~(proc[p].app = FALSE)
        BY <3>1, <3>3, ProcessRecord DEF RefersToPool
      <4>2. proc[p].app = TRUE
        BY <4>1
      <4>3. (proc[p].pool = "up") = TRUE
        BY <3>3
      <4> QED BY <4>1, <4>2, <4>3, Zenon
    <3> QED BY <3>1, <3>2, <3>3, ProcessRecord
  <2> QED BY <2>1, <2>2, <2>3, <2>4 DEF BootSafe
<1> QED BY <1>1, BootInvariance, PTL

-----------------------------------------------------------------------------
(* Accounts and their sessions (Accounts) *)

Words == Passwords \union {"unusable"}
AccountRows == [id : Nat, password : Words]
SessionRows == [player : Nat, password : Words, left : Int, token : Nat]
AuthSteps == {"insert", "login", "create", "again", "issue", "commit", "change", "erase"}
AuthRecords == [pc : AuthSteps \union {"idle"}, ident : Idents \union {"nobody"}, id : Nat,
                password : Words, evict : SUBSET Logins]

AccountTypes ==
    /\ account \in [Idents -> AccountRows] /\ sessions \in [Logins -> SessionRows]
    /\ auth \in [AuthRequests -> AuthRecords]
    /\ born \in 0..MaxAccounts /\ logins \in 0..MaxLogins /\ crossed \in BOOLEAN

\* The players rows: ids are given once, and a password fits the kind of an account.
AccountsApart ==
    /\ \A i \in Idents : account[i].id <= born /\ (account[i].id = 0 => account[i] = NoAccount)
    /\ \A i, j \in Idents : account[i].id = account[j].id /\ account[i].id # 0 => i = j
    /\ \A i \in Emails : account[i].id # 0 => account[i].password \in Passwords
    /\ \A i \in LichessIds : account[i].password = "unusable"

\* A session is of a player there is, and lasts as long as its token.
SessionFits(k, s) ==
    s # NoSession => /\ k <= logins /\ s.player \in 1..born /\ RowExists(s.player)
                     /\ s.left \in -1..SESSION_EXTEND /\ (s.token > 0 => s.left >= s.token)

\* What a request has read; what it has read of a row still holds of that row when
\* nobody has committed since.
Asked(w) ==
    /\ w.pc # "idle" => w.ident \in Idents
    /\ w.pc \in {"insert", "login", "change"} => w.ident \in Emails /\ w.password \in Passwords
    /\ w.pc \in {"create", "again"} => w.ident \in LichessIds /\ w.password = "unusable"
    /\ w.pc \in {"issue", "commit", "change", "erase"} =>
          /\ w.id \in 1..born
          /\ \A i \in Idents : account[i].id = w.id => i = w.ident
    /\ ~crossed /\ w.pc \in {"issue", "commit"} =>
          (account[w.ident].id = w.id => account[w.ident].password = w.password)
    /\ ~crossed /\ w.pc = "commit" => Cardinality(Of(w.id) \ w.evict) < MAX_SESSIONS

AccountsInv ==
    /\ AccountTypes /\ AccountsApart
    /\ \A k \in Logins : SessionFits(k, sessions[k])
    /\ \A q \in AuthRequests : Asked(auth[q])
    /\ PasswordChangeLogsOut /\ SessionsCapped

LEMMA AccountFacts ==
    /\ NoAccount \in AccountRows /\ NoAccount.id = 0 /\ NoAccount.password = "unusable"
    /\ NoSession \in SessionRows /\ NoSession.player = 0 /\ NoSession.token = 0
    /\ AtRest \in AuthRecords /\ AtRest.pc = "idle"
    /\ MAX_SESSIONS \in Nat \ {0} /\ SESSION_EXTEND \in Nat /\ SLIDE_THRESHOLD \in Nat
    /\ ACCESS_EXPIRE \in Nat \ {0} /\ MaxLogins \in Nat /\ MaxAccounts \in Nat
    /\ \A w \in Words : w \notin Passwords => w = "unusable"
    /\ \A i \in Emails : i \in Idents /\ i \notin LichessIds
    /\ \A i \in LichessIds : i \in Idents
<1>1. NoAccount \in AccountRows /\ NoAccount.id = 0 /\ NoAccount.password = "unusable"
  BY DEF NoAccount, AccountRows, Words
<1>2. NoSession \in SessionRows /\ NoSession.player = 0 /\ NoSession.token = 0
  BY DEF NoSession, SessionRows, Words
<1>3. AtRest \in AuthRecords /\ AtRest.pc = "idle"
  BY DEF AtRest, AuthRecords, Words, AuthSteps
<1>4. \A i \in Emails : i \in Idents /\ i \notin LichessIds
  BY AccountsAssumption DEF Idents
<1>5. \A i \in LichessIds : i \in Idents
  BY DEF Idents
<1>6. \A w \in Words : w \notin Passwords => w = "unusable"
  BY DEF Words
<1> QED BY <1>1, <1>2, <1>3, <1>4, <1>5, <1>6, AccountsAssumption

\* A set of rows has an oldest one.
LEMMA HasOldest ==
    ASSUME NEW A \in SUBSET Logins, A # {}
    PROVE  \E m \in A : \A k \in A : m <= k
<1>1. A \subseteq Nat
  BY DEF Logins
<1>2. PICK m \in A : \A k \in A : ~ (<<k, m>> \in OpToRel(<, Nat))
  BY <1>1, WFMin, NatLessThanWellFounded
<1>3. \A k \in A : ~ (k < m)
  BY <1>1, <1>2 DEF OpToRel
<1> QED BY <1>1, <1>3

LEMMA FiniteRows ==
    ASSUME NEW A \in SUBSET Logins
    PROVE  IsFiniteSet(A) /\ Cardinality(A) \in Nat
<1>1. IsFiniteSet(Logins)
  BY FS_Interval, AccountFacts DEF Logins
<1>2. IsFiniteSet(A)
  BY <1>1, FS_Subset
<1> QED BY <1>2, FS_CardinalityType

LEMMA FewerRows ==
    ASSUME NEW A \in SUBSET Logins, NEW B \in SUBSET A
    PROVE  Cardinality(B) \in Nat /\ Cardinality(A) \in Nat /\ Cardinality(B) <= Cardinality(A)
BY FiniteRows, FS_Subset

LEMMA OneMoreRow ==
    ASSUME NEW A \in SUBSET Logins, NEW n
    PROVE  Cardinality(A \union {n}) <= Cardinality(A) + 1
<1>1. IsFiniteSet(A) /\ Cardinality(A) \in Nat
  BY FiniteRows
<1>2. Cardinality(A \union {n}) = IF n \in A THEN Cardinality(A) ELSE Cardinality(A) + 1
  BY <1>1, FS_AddElement
<1> QED BY <1>1, <1>2

\* What is not among the oldest leaves room for one more.
LEMMA RoomIsMade ==
    ASSUME NEW A \in SUBSET Logins
    PROVE  Cardinality(A \ Oldest(A)) < MAX_SESSIONS
<1> DEFINE K == A \ Oldest(A)
<1>1. CASE K = {}
  <2>1. Cardinality(K) = 0 /\ 0 < MAX_SESSIONS
    <3> HIDE DEF K
    <3> QED BY <1>1, FS_EmptySet, AccountFacts
  <2> QED BY <2>1
<1>2. CASE K # {}
  <2>1. PICK m \in K : \A k \in K : m <= k
    BY <1>2, HasOldest
  <2> DEFINE L == {j \in A : j < m}
  <2>2. IsFiniteSet(A) /\ Cardinality(A) \in Nat /\ Cardinality(L) \in Nat /\ L \subseteq A
    BY FiniteRows
  <2>3. Cardinality(L) >= Cardinality(A) - MAX_SESSIONS + 1
    <3>1. ~ (Cardinality(L) < Surplus(Cardinality(A)))
      BY DEF Oldest
    <3> QED BY <3>1, <2>2, AccountFacts DEF Surplus
  <2>4. K \subseteq A \ L
    <3> SUFFICES ASSUME NEW k \in K PROVE ~ (k < m)
      OBVIOUS
    <3>1. k \in Int /\ m \in Int /\ m <= k
      BY <2>1 DEF Logins
    <3> QED BY <3>1
  <2>5. Cardinality(A \ L) = Cardinality(A) - Cardinality(L)
    <3>1. A \intersect L = L
      BY <2>2
    <3> HIDE DEF L
    <3> QED BY <2>2, <3>1, FS_Difference
  <2>6. Cardinality(K) <= Cardinality(A \ L) /\ Cardinality(K) \in Nat
    <3> HIDE DEF K, L
    <3> QED BY <2>4, FewerRows
  <2> HIDE DEF K, L
  <2> QED BY <2>2, <2>3, <2>5, <2>6, AccountFacts DEF K
<1> QED BY <1>1, <1>2

LEMMA RowFacts ==
    /\ Rows \subseteq Logins /\ \A id : Of(id) \subseteq Rows
    /\ \A id : Cardinality(Of(id)) \in Nat
    /\ \A id : id # 0 => Of(id) = {k \in Logins : sessions[k].player = id}
<1>1. Rows \subseteq Logins /\ \A id : Of(id) \subseteq Rows
  BY DEF Rows, Of
<1>2. \A id : Cardinality(Of(id)) \in Nat
  BY <1>1, FiniteRows
<1>3. \A id : id # 0 => Of(id) = {k \in Logins : sessions[k].player = id}
  BY AccountFacts DEF Of, Rows
<1> QED BY <1>1, <1>2, <1>3

\* A step of one request that commits nothing.
LEMMA RequestStep ==
    ASSUME AccountsInv, NEW q \in AuthRequests, NEW w \in AuthRecords,
           auth' = [auth EXCEPT ![q] = w], Asked(w),
           UNCHANGED <<account, born, sessions, logins, crossed>>
    PROVE  AccountsInv'
<1>1. auth' \in [AuthRequests -> AuthRecords] /\ \A r \in AuthRequests : auth'[r] \in {auth[r], w}
  BY DEF AccountsInv, AccountTypes
<1>2. AccountTypes' /\ AccountsApart'
  BY <1>1 DEF AccountsInv, AccountTypes, AccountsApart
<1>3. (\A k \in Logins : SessionFits(k, sessions[k]))'
  BY DEF AccountsInv, SessionFits, RowExists
<1>4. (\A r \in AuthRequests : Asked(auth[r]))'
  <2> SUFFICES ASSUME NEW r \in AuthRequests PROVE Asked(auth[r])'
    OBVIOUS
  <2>1. \A v : Asked(v) => Asked(v)'
    BY DEF Asked, Of, Rows
  <2>2. PICK v \in {auth[r], w} : v = auth'[r] /\ Asked(v)
    BY <1>1 DEF AccountsInv
  <2>3. Asked(v)'
    BY <2>1, <2>2
  <2> QED BY <2>2, <2>3 DEF Asked
<1>5. PasswordChangeLogsOut' /\ SessionsCapped'
  BY DEF AccountsInv, PasswordChangeLogsOut, SessionsCapped, Of, Rows
<1> QED BY <1>2, <1>3, <1>4, <1>5 DEF AccountsInv

\* A commit of one request: nobody else is under way, or it is seen.
LEMMA CommitStep ==
    ASSUME AccountsInv, NEW q \in AuthRequests, NEW w \in AuthRecords,
           auth' = [auth EXCEPT ![q] = w], Commits(q), Asked(w)',
           born' \in 0..MaxAccounts, born' >= born, logins' \in 0..MaxLogins,
           account' \in [Idents -> AccountRows], sessions' \in [Logins -> SessionRows],
           \A i \in Idents : account'[i].id \in {account[i].id, 0} \/ account'[i].id > born,
           AccountsApart', \A k \in Logins : SessionFits(k, sessions[k])',
           PasswordChangeLogsOut', SessionsCapped'
    PROVE  AccountsInv'
<1>1. auth' \in [AuthRequests -> AuthRecords] /\ auth'[q] = w
      /\ \A r \in AuthRequests : r # q => auth'[r] = auth[r]
  BY DEF AccountsInv, AccountTypes
<1>2. crossed' \in BOOLEAN
  BY DEF Commits, AccountsInv, AccountTypes
<1>3. AccountTypes'
  BY <1>1, <1>2 DEF AccountTypes
<1>4. (\A r \in AuthRequests : Asked(auth[r]))'
  <2> SUFFICES ASSUME NEW r \in AuthRequests PROVE Asked(auth[r])'
    OBVIOUS
  <2>1. CASE r = q
    BY <1>1, <2>1 DEF Asked
  <2>2. CASE r # q
    <3>1. Asked(auth[r]) /\ auth'[r] = auth[r] /\ auth[r] \in AuthRecords /\ born \in Nat
      BY <1>1, <2>2 DEF AccountsInv, AccountTypes
    <3>2. ~crossed' => auth[r].pc = "idle"
      BY <2>2 DEF Commits, Idle
    <3>3. auth[r].pc \in {"issue", "commit", "change", "erase"} =>
             auth[r].id \in 1..born' /\ \A i \in Idents : account'[i].id = auth[r].id => i = auth[r].ident
      <4> SUFFICES ASSUME auth[r].pc \in {"issue", "commit", "change", "erase"}
                   PROVE auth[r].id \in 1..born' /\ \A i \in Idents : account'[i].id = auth[r].id => i = auth[r].ident
        OBVIOUS
      <4>1. auth[r].id \in 1..born /\ \A i \in Idents : account[i].id = auth[r].id => i = auth[r].ident
        BY <3>1 DEF Asked
      <4> QED BY <3>1, <4>1
    <3> QED BY <3>1, <3>2, <3>3 DEF Asked
  <2> QED BY <2>1, <2>2
<1> QED BY <1>3, <1>4 DEF AccountsInv

\* What the invariant says of one request.
LEMMA OfRequest ==
    ASSUME AccountsInv, NEW q \in AuthRequests
    PROVE  /\ auth[q] \in AuthRecords /\ Asked(auth[q]) /\ AccountsApart
           /\ account \in [Idents -> AccountRows] /\ sessions \in [Logins -> SessionRows]
           /\ auth \in [AuthRequests -> AuthRecords]
           /\ born \in 0..MaxAccounts /\ logins \in 0..MaxLogins /\ crossed \in BOOLEAN
           /\ \A k \in Logins : SessionFits(k, sessions[k])
           /\ PasswordChangeLogsOut /\ SessionsCapped
BY DEF AccountsInv, AccountTypes

\* A request begins.
LEMMA AsksStep ==
    ASSUME AccountsInv, NEW q \in AuthRequests, NEW pc \in AuthSteps, NEW i \in Idents, NEW id \in Nat,
           NEW password \in Words, Asks(q, pc, i, id, password),
           pc # "commit", pc \in {"insert", "login", "change"} => i \in Emails /\ password \in Passwords,
           pc \in {"create", "again"} => i \in LichessIds /\ password = "unusable",
           pc \in {"issue", "change", "erase"} => id # 0 /\ account[i].id = id,
           pc = "issue" => account[i].password = password,
           UNCHANGED <<account, born, sessions, logins, crossed>>
    PROVE  AccountsInv'
<1>1. PICK w \in AuthRecords : w = [pc |-> pc, ident |-> i, id |-> id, password |-> password, evict |-> {}]
  BY DEF AuthRecords
<1>2. auth' = [auth EXCEPT ![q] = w]
  BY <1>1 DEF Asks
<1>3. w.pc = pc /\ w.ident = i /\ w.id = id /\ w.password = password
  BY <1>1
<1>4. w.pc \in {"issue", "commit", "change", "erase"} =>
         w.id \in 1..born /\ \A j \in Idents : account[j].id = w.id => j = w.ident
  <2>1. \A j \in Idents : account[j].id \in Nat /\ account[j].id <= born /\ born \in Nat
    BY OfRequest DEF AccountsApart, AccountRows
  <2> QED BY <1>3, <2>1, OfRequest DEF AccountsApart
<1>5. Asked(w)
  BY <1>3, <1>4 DEF Asked
<1> QED BY <1>2, <1>5, RequestStep

LEMMA RegisterOK ==
    ASSUME AccountsInv, NEW q \in AuthRequests, NEW i \in Idents, NEW password \in Passwords,
           Register(q, i, password)
    PROVE  AccountsInv'
<1>1. i \in Emails /\ password \in Words /\ Asks(q, "insert", i, 0, password)
      /\ UNCHANGED <<account, born, sessions, logins, crossed>>
  BY DEF Register, Words
<1> QED BY <1>1, AsksStep DEF AuthSteps

LEMMA LoginOK ==
    ASSUME AccountsInv, NEW q \in AuthRequests, NEW i \in Idents, NEW password \in Passwords,
           Login(q, i, password)
    PROVE  AccountsInv'
<1>1. i \in Emails /\ password \in Words /\ Asks(q, "issue", i, account[i].id, password)
      /\ account[i].password = password /\ account[i] # NoAccount
      /\ UNCHANGED <<account, born, sessions, logins, crossed>>
  BY DEF Login, Words
<1>2. account[i].id \in Nat /\ account[i].id # 0
  BY <1>1, OfRequest DEF AccountsApart, AccountRows
<1> QED BY <1>1, <1>2, AsksStep DEF AuthSteps

LEMMA LoginWithLichessOK ==
    ASSUME AccountsInv, NEW q \in AuthRequests, NEW i \in Idents, LoginWithLichess(q, i)
    PROVE  AccountsInv'
<1>1. i \in LichessIds /\ UNCHANGED <<account, born, sessions, logins, crossed>>
      /\ "unusable" \in Words /\ account[i].id \in Nat /\ account[i].password = "unusable"
  BY OfRequest DEF LoginWithLichess, Words, AccountsApart, AccountRows
<1>2. CASE account[i] = NoAccount
  <2>1. Asks(q, "create", i, account[i].id, "unusable")
    BY <1>2 DEF LoginWithLichess
  <2> QED BY <1>1, <2>1, AsksStep DEF AuthSteps
<1>3. CASE account[i] # NoAccount
  <2>1. Asks(q, "issue", i, account[i].id, "unusable")
    BY <1>3 DEF LoginWithLichess
  <2>2. account[i].id # 0
    BY <1>3, OfRequest DEF AccountsApart
  <2> QED BY <1>1, <2>1, <2>2, AsksStep DEF AuthSteps
<1> QED BY <1>2, <1>3

LEMMA AskErasureOK ==
    ASSUME AccountsInv, NEW q \in AuthRequests, NEW i \in Idents, AskErasure(q, i)
    PROVE  AccountsInv'
<1>1. Asks(q, "erase", i, account[i].id, "unusable") /\ "unusable" \in Words
      /\ UNCHANGED <<account, born, sessions, logins, crossed>>
  BY DEF AskErasure, Words
<1>2. account[i].id \in Nat /\ account[i].id # 0
  BY OfRequest DEF AccountsApart, AccountRows, AskErasure
<1> QED BY <1>1, <1>2, AsksStep DEF AuthSteps

LEMMA ChangePasswordOK ==
    ASSUME AccountsInv, NEW q \in AuthRequests, NEW k \in Logins, NEW password \in Passwords,
           ChangePassword(q, k, password)
    PROVE  AccountsInv'
<1>1. PICK id \in Nat : id = sessions[k].player /\ id # 0 /\ RowExists(id)
  BY OfRequest DEF ChangePassword, Rows, SessionFits
<1>2. IdentOf(id) \in Idents /\ account[IdentOf(id)].id = id
  BY <1>1 DEF IdentOf, RowExists
<1>3. Asks(q, "change", IdentOf(id), id, password) /\ account[IdentOf(id)].password \in Passwords
      /\ password \in Words /\ UNCHANGED <<account, born, sessions, logins, crossed>>
  BY <1>1 DEF ChangePassword, Words
<1>4. IdentOf(id) \in Emails
  BY <1>2, <1>3, OfRequest, AccountsAssumption DEF AccountsApart, Idents
<1> QED BY <1>1, <1>2, <1>3, <1>4, AsksStep DEF AuthSteps

LEMMA LogNewPlayerInOK ==
    ASSUME AccountsInv, NEW q \in AuthRequests, LogNewPlayerIn(q) PROVE AccountsInv'
<1>1. /\ auth[q] \in AuthRecords /\ auth[q].pc = "login" /\ auth[q].ident \in Emails
      /\ auth[q].ident \in Idents /\ auth[q].password \in Passwords
      /\ UNCHANGED <<account, born, sessions, logins, crossed>>
  BY OfRequest, AccountFacts DEF LogNewPlayerIn, AuthAt, Asked
<1> DEFINE row == account[auth[q].ident]
<1>2. row \in AccountRows /\ (row.id = 0 => row = NoAccount) /\ row.id <= born /\ born \in Nat
      /\ \A i \in Idents : account[i].id = row.id /\ row.id # 0 => i = auth[q].ident
  BY <1>1, OfRequest DEF AccountsApart
<1>3. CASE row.password = auth[q].password
  <2>1. PICK id \in 1..born : id = row.id
    BY <1>1, <1>2, <1>3, AccountFacts, AccountsAssumption DEF AccountRows
  <2>2. PICK w \in AuthRecords : w = [auth[q] EXCEPT !.pc = "issue", !.id = id]
    <3> DEFINE u == [auth[q] EXCEPT !.pc = "issue"]
    <3>1. u \in AuthRecords
      BY <1>1 DEF AuthRecords, AuthSteps
    <3>2. [u EXCEPT !.id = id] = [auth[q] EXCEPT !.pc = "issue", !.id = id]
      OBVIOUS
    <3> HIDE DEF u
    <3>3. [u EXCEPT !.id = id] \in AuthRecords
      BY <3>1 DEF AuthRecords
    <3> QED BY <3>2, <3>3
  <2>3. w.pc = "issue" /\ w.id = row.id /\ w.ident = auth[q].ident /\ w.password = auth[q].password
    BY <1>1, <2>1, <2>2 DEF AuthRecords
  <2>4. auth' = [auth EXCEPT ![q] = w]
    BY <1>3, <2>1, <2>2 DEF LogNewPlayerIn
  <2>5. Asked(w)
    BY <1>1, <1>2, <1>3, <2>1, <2>3 DEF Asked
  <2> QED BY <1>1, <2>4, <2>5, RequestStep
<1>4. CASE row.password # auth[q].password
  <2>1. auth' = [auth EXCEPT ![q] = AtRest]
    BY <1>4 DEF LogNewPlayerIn, Ends
  <2>2. Asked(AtRest)
    BY AccountFacts DEF Asked
  <2> QED BY <1>1, <2>1, <2>2, AccountFacts, RequestStep
<1> QED BY <1>3, <1>4

LEMMA UseOtherRowOK ==
    ASSUME AccountsInv, NEW q \in AuthRequests, UseOtherRow(q) PROVE AccountsInv'
<1>1. /\ auth[q] \in AuthRecords /\ auth[q].pc = "again" /\ auth[q].ident \in LichessIds
      /\ auth[q].ident \in Idents /\ auth[q].password = "unusable"
      /\ UNCHANGED <<account, born, sessions, logins, crossed>>
  BY OfRequest, AccountFacts DEF UseOtherRow, AuthAt, Asked
<1> DEFINE row == account[auth[q].ident]
<1>2. row \in AccountRows /\ row.id <= born /\ born \in Nat /\ row.password = "unusable"
      /\ \A i \in Idents : account[i].id = row.id /\ row.id # 0 => i = auth[q].ident
  BY <1>1, OfRequest DEF AccountsApart
<1>3. CASE row.id # 0
  <2>1. PICK id \in 1..born : id = row.id
    BY <1>2, <1>3 DEF AccountRows
  <2>2. PICK w \in AuthRecords : w = [auth[q] EXCEPT !.pc = "issue", !.id = id]
    <3> DEFINE u == [auth[q] EXCEPT !.pc = "issue"]
    <3>1. u \in AuthRecords
      BY <1>1 DEF AuthRecords, AuthSteps
    <3>2. [u EXCEPT !.id = id] = [auth[q] EXCEPT !.pc = "issue", !.id = id]
      OBVIOUS
    <3> HIDE DEF u
    <3>3. [u EXCEPT !.id = id] \in AuthRecords
      BY <3>1 DEF AuthRecords
    <3> QED BY <3>2, <3>3
  <2>3. w.pc = "issue" /\ w.id = row.id /\ w.ident = auth[q].ident /\ w.password = auth[q].password
    BY <1>1, <2>1, <2>2 DEF AuthRecords
  <2>4. auth' = [auth EXCEPT ![q] = w]
    BY <1>3, <2>1, <2>2 DEF UseOtherRow
  <2>5. Asked(w)
    BY <1>1, <1>2, <1>3, <2>1, <2>3 DEF Asked
  <2> QED BY <1>1, <2>4, <2>5, RequestStep
<1>4. CASE row.id = 0
  <2>1. auth' = [auth EXCEPT ![q] = AtRest]
    BY <1>4 DEF UseOtherRow, Ends
  <2>2. Asked(AtRest)
    BY AccountFacts DEF Asked
  <2> QED BY <1>1, <2>1, <2>2, AccountFacts, RequestStep
<1> QED BY <1>3, <1>4

LEMMA ReadSessionsOK ==
    ASSUME AccountsInv, NEW q \in AuthRequests, ReadSessions(q) PROVE AccountsInv'
<1> DEFINE mine == Of(auth[q].id)
           expired == {k \in mine : Expired(k)}
           active == mine \ expired
<1>1. /\ auth[q] \in AuthRecords /\ auth[q].pc = "issue" /\ Asked(auth[q])
      /\ UNCHANGED <<account, born, sessions, logins, crossed>>
  BY OfRequest DEF ReadSessions, AuthAt
<1>2. mine \in SUBSET Logins /\ expired \in SUBSET mine /\ active \in SUBSET Logins
  BY RowFacts
<1>3. PICK e \in SUBSET Logins : e = expired \union Oldest(active)
  BY <1>2 DEF Oldest
<1>4. Cardinality(mine \ e) < MAX_SESSIONS
  <2>1. mine \ e = active \ Oldest(active)
    BY <1>3
  <2> HIDE DEF active
  <2> QED BY <1>2, <2>1, RoomIsMade
<1>5. PICK w \in AuthRecords : w = [auth[q] EXCEPT !.pc = "commit", !.evict = e]
  <2> DEFINE u == [auth[q] EXCEPT !.pc = "commit"]
  <2>1. u \in AuthRecords
    BY <1>1 DEF AuthRecords, AuthSteps
  <2>2. [u EXCEPT !.evict = e] = [auth[q] EXCEPT !.pc = "commit", !.evict = e]
    OBVIOUS
  <2> HIDE DEF u
  <2>3. [u EXCEPT !.evict = e] \in AuthRecords
    BY <2>1 DEF AuthRecords
  <2> QED BY <2>2, <2>3
<1>6. w.pc = "commit" /\ w.id = auth[q].id /\ w.ident = auth[q].ident /\ w.password = auth[q].password
      /\ w.evict = e
  BY <1>1, <1>5 DEF AuthRecords
<1>7. auth' = [auth EXCEPT ![q] = w]
  <2>1. auth' = [auth EXCEPT ![q].pc = "commit", ![q].evict = e]
    BY <1>3 DEF ReadSessions
  <2> QED BY <1>5, <2>1
<1>8. Asked(w)
  <2> HIDE DEF mine
  <2>1. ~crossed /\ w.pc = "commit" => Cardinality(Of(w.id) \ w.evict) < MAX_SESSIONS
    BY <1>4, <1>6 DEF mine
  <2> QED BY <1>1, <1>6, <2>1 DEF Asked
<1> QED BY <1>1, <1>7, <1>8, RequestStep

\* A players row is inserted.
LEMMA InsertStep ==
    ASSUME AccountsInv, NEW q \in AuthRequests, NEW w \in AuthRecords, NEW i \in Idents, NEW password \in Words,
           account[i] = NoAccount, born < MaxAccounts, NewAccount(i, password), Commits(q),
           auth' = [auth EXCEPT ![q] = w], Asked(w)', UNCHANGED <<sessions, logins>>,
           i \in Emails => password \in Passwords, i \in LichessIds => password = "unusable"
    PROVE  AccountsInv'
<1>1. /\ account \in [Idents -> AccountRows] /\ born \in Nat /\ AccountsApart
      /\ \A k \in Logins : SessionFits(k, sessions[k])
      /\ born + 1 \in 0..MaxAccounts /\ born' = born + 1
  BY OfRequest, AccountFacts DEF NewAccount
<1> DEFINE row == [id |-> born + 1, password |-> password]
<1>2. row \in AccountRows /\ row.id = born + 1 /\ row.password = password
  BY <1>1 DEF AccountRows
<1>3. account' = [account EXCEPT ![i] = row]
  BY DEF NewAccount
<1> HIDE DEF row
<1>4. account' \in [Idents -> AccountRows] /\ account'[i] = row
      /\ \A j \in Idents : j # i => account'[j] = account[j]
  BY <1>1, <1>2, <1>3
<1>5. \A j \in Idents : account[j].id \in Nat /\ account[j].id <= born
  BY <1>1 DEF AccountsApart, AccountRows
<1>6. \A j \in Idents : account'[j].id \in {account[j].id, 0} \/ account'[j].id > born
  BY <1>1, <1>2, <1>4
<1>7. AccountsApart'
  BY <1>1, <1>2, <1>4, <1>5, AccountFacts DEF AccountsApart
<1>8. \A k \in Logins : SessionFits(k, sessions[k])'
  <2> SUFFICES ASSUME NEW k \in Logins, sessions[k] # NoSession
               PROVE  SessionFits(k, sessions[k])'
    BY DEF SessionFits
  <2>1. SessionFits(k, sessions[k])
    BY <1>1
  <2>2. PICK j \in Idents : account[j].id = sessions[k].player
    BY <2>1 DEF SessionFits, RowExists
  <2>3. j # i
    BY <2>1, <2>2, AccountFacts DEF SessionFits
  <2>4. RowExists(sessions[k].player)'
    BY <1>4, <2>2, <2>3 DEF RowExists
  <2>5. sessions[k].player \in 1..born'
    BY <1>1, <2>1 DEF SessionFits
  <2> QED BY <2>1, <2>4, <2>5 DEF SessionFits
<1>9. crossed \in BOOLEAN /\ (~crossed' => ~crossed)
  BY OfRequest DEF Commits
<1>10. \A k \in Rows : sessions[k].player <= born /\ sessions[k].player \in Nat
  BY <1>1 DEF Rows, SessionFits
<1>11. PasswordChangeLogsOut'
  <2> SUFFICES ASSUME ~crossed', NEW k \in Rows, NEW j \in Idents, account'[j].id = sessions[k].player
               PROVE  account'[j].password = sessions[k].password
    BY DEF PasswordChangeLogsOut, Rows
  <2>1. j # i
    BY <1>1, <1>2, <1>4, <1>10
  <2> QED BY <1>4, <1>9, <2>1, OfRequest DEF PasswordChangeLogsOut
<1>12. SessionsCapped'
  <2> SUFFICES ASSUME ~crossed', NEW id \in 1..born + 1 PROVE Cardinality(Of(id)) <= MAX_SESSIONS
    BY <1>1 DEF SessionsCapped, Of, Rows
  <2>1. CASE id \in 1..born
    BY <1>9, <2>1, OfRequest DEF SessionsCapped
  <2>2. CASE id = born + 1
    <3>1. Of(id) = {}
      BY <1>1, <1>10, <2>2 DEF Of
    <3> QED BY <3>1, FS_EmptySet, AccountFacts
  <2> QED BY <1>1, <2>1, <2>2
<1>13. born' \in 0..MaxAccounts /\ born' >= born /\ logins' \in 0..MaxLogins
       /\ sessions' \in [Logins -> SessionRows]
  BY <1>1, OfRequest
<1> QED BY <1>4, <1>6, <1>7, <1>8, <1>11, <1>12, <1>13, CommitStep

\* A commit that finds nothing to change.
LEMMA EmptyCommit ==
    ASSUME AccountsInv, NEW q \in AuthRequests, NEW w \in AuthRecords, auth' = [auth EXCEPT ![q] = w],
           Commits(q), Asked(w)', UNCHANGED <<account, born, sessions, logins>>
    PROVE  AccountsInv'
<1>1. crossed \in BOOLEAN /\ (~crossed' => ~crossed)
  BY OfRequest DEF Commits
<1>2. AccountsApart'
  BY OfRequest DEF AccountsApart
<1>3. \A k \in Logins : SessionFits(k, sessions[k])'
  BY OfRequest DEF SessionFits, RowExists
<1>4. PasswordChangeLogsOut' /\ SessionsCapped'
  BY <1>1, OfRequest DEF PasswordChangeLogsOut, SessionsCapped, Of, Rows
<1>5. born \in Nat /\ born' \in 0..MaxAccounts /\ born' >= born /\ logins' \in 0..MaxLogins
  BY OfRequest, AccountFacts
<1>6. /\ account' \in [Idents -> AccountRows] /\ sessions' \in [Logins -> SessionRows]
      /\ \A i \in Idents : account'[i].id \in {account[i].id, 0} \/ account'[i].id > born
  BY OfRequest
<1> QED BY <1>2, <1>3, <1>4, <1>5, <1>6, CommitStep

LEMMA InsertPlayerOK ==
    ASSUME AccountsInv, NEW q \in AuthRequests, InsertPlayer(q) PROVE AccountsInv'
<1>1. /\ auth[q] \in AuthRecords /\ auth[q].pc = "insert" /\ Asked(auth[q])
      /\ Commits(q) /\ UNCHANGED <<sessions, logins>> /\ born < MaxAccounts
  BY OfRequest DEF InsertPlayer, AuthAt
<1>2. auth[q].ident \in Idents /\ auth[q].ident \in Emails /\ auth[q].ident \notin LichessIds
      /\ auth[q].password \in Passwords
  BY <1>1, AccountFacts DEF Asked
<1>3. CASE account[auth[q].ident] = NoAccount
  <2>1. PICK w \in AuthRecords : w = [auth[q] EXCEPT !.pc = "login"]
    BY <1>1 DEF AuthRecords, AuthSteps
  <2>2. w.pc = "login" /\ w.ident = auth[q].ident /\ w.password = auth[q].password
    BY <1>1, <2>1 DEF AuthRecords
  <2>3. auth' = [auth EXCEPT ![q] = w] /\ NewAccount(auth[q].ident, auth[q].password)
    BY <1>3, <2>1 DEF InsertPlayer, Goes
  <2>4. Asked(w)'
    BY <1>2, <2>2 DEF Asked
  <2>5. PICK i \in Idents, password \in Words : i = auth[q].ident /\ password = auth[q].password
    BY <1>2 DEF Words
  <2>6. NewAccount(i, password) /\ account[i] = NoAccount /\ i \in Emails /\ i \notin LichessIds
        /\ password \in Passwords
    BY <1>2, <1>3, <2>3, <2>5
  <2> QED BY <1>1, <2>3, <2>4, <2>6, InsertStep
<1>4. CASE account[auth[q].ident] # NoAccount
  <2>1. auth' = [auth EXCEPT ![q] = AtRest] /\ UNCHANGED <<account, born, sessions, logins>>
    BY <1>1, <1>4 DEF InsertPlayer, Ends
  <2>2. AtRest \in AuthRecords /\ Asked(AtRest)'
    BY AccountFacts DEF Asked
  <2> QED BY <1>1, <2>1, <2>2, EmptyCommit
<1> QED BY <1>3, <1>4

LEMMA CreatePlayerOK ==
    ASSUME AccountsInv, NEW q \in AuthRequests, CreatePlayer(q) PROVE AccountsInv'
<1>1. /\ auth[q] \in AuthRecords /\ auth[q].pc = "create" /\ Asked(auth[q])
      /\ Commits(q) /\ UNCHANGED <<sessions, logins>> /\ born < MaxAccounts
      /\ born \in Nat /\ account \in [Idents -> AccountRows] /\ AccountsApart
  BY OfRequest, AccountFacts DEF CreatePlayer, AuthAt
<1>2. auth[q].ident \in Idents /\ auth[q].ident \in LichessIds /\ auth[q].ident \notin Emails
      /\ auth[q].password = "unusable" /\ "unusable" \in Words
  BY <1>1, AccountFacts DEF Asked, Words
<1>3. CASE account[auth[q].ident] = NoAccount
  <2>1. PICK n \in Nat : n = born + 1
    BY <1>1
  <2>2. PICK w \in AuthRecords : w = [auth[q] EXCEPT !.pc = "issue", !.id = n]
    <3> DEFINE u == [auth[q] EXCEPT !.pc = "issue"]
    <3>1. u \in AuthRecords
      BY <1>1 DEF AuthRecords, AuthSteps
    <3>2. [u EXCEPT !.id = n] = [auth[q] EXCEPT !.pc = "issue", !.id = n]
      OBVIOUS
    <3> HIDE DEF u
    <3>3. [u EXCEPT !.id = n] \in AuthRecords
      BY <3>1 DEF AuthRecords
    <3> QED BY <3>2, <3>3
  <2>3. w.pc = "issue" /\ w.ident = auth[q].ident /\ w.password = "unusable" /\ w.id = n
    BY <1>1, <1>2, <2>2 DEF AuthRecords
  <2>4. NewAccount(auth[q].ident, "unusable") /\ auth' = [auth EXCEPT ![q] = w]
    <3>1. auth' = [auth EXCEPT ![q].pc = "issue", ![q].id = n] /\ NewAccount(auth[q].ident, "unusable")
      BY <1>3, <2>1 DEF CreatePlayer
    <3> QED BY <2>2, <3>1
  <2>5. PICK i \in Idents : i = auth[q].ident
    BY <1>2
  <2>6. /\ born' = n /\ account' = [account EXCEPT ![i] = [id |-> n, password |-> "unusable"]]
    BY <2>1, <2>4, <2>5 DEF NewAccount
  <2>7. \A j \in Idents : account[j].id \in Nat /\ account[j].id <= born
    BY <1>1 DEF AccountsApart, AccountRows
  <2>8. \A j \in Idents : account'[j].id = n => j = i
    BY <1>1, <2>1, <2>6, <2>7
  <2>9. account'[i].password = "unusable" /\ n \in 1..born'
    BY <1>1, <2>1, <2>6
  <2>10. Asked(w)'
    BY <2>3, <2>5, <2>8, <2>9 DEF Asked
  <2>11. NewAccount(i, "unusable") /\ account[i] = NoAccount /\ i \notin Emails
    BY <1>2, <1>3, <2>4, <2>5
  <2> QED BY <1>1, <1>2, <2>4, <2>10, <2>11, InsertStep
<1>4. CASE account[auth[q].ident] # NoAccount
  <2>1. PICK w \in AuthRecords : w = [auth[q] EXCEPT !.pc = "again"]
    BY <1>1 DEF AuthRecords, AuthSteps
  <2>2. w.pc = "again" /\ w.ident = auth[q].ident /\ w.password = auth[q].password
    BY <1>1, <2>1 DEF AuthRecords
  <2>3. auth' = [auth EXCEPT ![q] = w] /\ UNCHANGED <<account, born, sessions, logins>>
    BY <1>1, <1>4, <2>1 DEF CreatePlayer, Goes
  <2>4. Asked(w)'
    BY <1>2, <2>2 DEF Asked
  <2> QED BY <1>1, <2>3, <2>4, EmptyCommit
<1> QED BY <1>3, <1>4

LEMMA IssueSessionOK ==
    ASSUME AccountsInv, NEW q \in AuthRequests, IssueSession(q) PROVE AccountsInv'
<1>1. /\ auth[q] \in AuthRecords /\ auth[q].pc = "commit" /\ Asked(auth[q])
      /\ Commits(q) /\ auth' = [auth EXCEPT ![q] = AtRest] /\ UNCHANGED <<account, born>>
      /\ AtRest \in AuthRecords /\ logins < MaxLogins
  BY OfRequest, AccountFacts DEF IssueSession, AuthAt, Ends
<1>2. Asked(AtRest)'
  BY AccountFacts DEF Asked
<1>3. CASE ~StillThere(auth[q].id)
  <2>1. UNCHANGED <<sessions, logins>>
    BY <1>3 DEF IssueSession
  <2> QED BY <1>1, <1>2, <2>1, EmptyCommit
<1>4. CASE StillThere(auth[q].id)
  <2>1. PICK id \in Nat, word \in Words, e \in SUBSET Logins, i \in Idents :
            id = auth[q].id /\ word = auth[q].password /\ e = auth[q].evict /\ i = auth[q].ident
    BY <1>1 DEF AuthRecords, Asked
  <2>2. /\ born \in Nat /\ logins \in Nat /\ MaxLogins \in Nat /\ crossed \in BOOLEAN
        /\ sessions \in [Logins -> SessionRows] /\ account \in [Idents -> AccountRows]
        /\ born \in 0..MaxAccounts
    BY OfRequest, AccountFacts
  <2>3. /\ id \in 1..born /\ \A j \in Idents : account[j].id = id => j = i
        /\ ~crossed => (account[i].id = id => account[i].password = word)
        /\ ~crossed => Cardinality(Of(id) \ e) < MAX_SESSIONS
    BY <1>1, <2>1 DEF Asked
  <2> DEFINE row == [player |-> id, password |-> word, left |-> SESSION_EXTEND, token |-> ACCESS_EXPIRE]
  <2>4. PICK n \in Logins : n = logins + 1
    BY <1>1, <2>2 DEF Logins
  <2>5. row \in SessionRows /\ row.player = id /\ row.password = word /\ row.left = SESSION_EXTEND
        /\ row.token = ACCESS_EXPIRE
    BY AccountFacts DEF SessionRows
  <2>6. sessions' = [[k \in Logins |-> IF k \in e THEN NoSession ELSE sessions[k]] EXCEPT ![n] = row]
        /\ logins' = n
    BY <1>4, <2>1, <2>4 DEF IssueSession, Without
  <2> HIDE DEF row
  <2>7. /\ sessions' \in [Logins -> SessionRows] /\ sessions'[n] = row
        /\ \A k \in Logins : k # n => sessions'[k] = IF k \in e THEN NoSession ELSE sessions[k]
    BY <2>2, <2>5, <2>6, AccountFacts
  <2>8. \A k \in Logins : SessionFits(k, sessions[k])'
    <3> SUFFICES ASSUME NEW k \in Logins PROVE SessionFits(k, sessions[k])'
      OBVIOUS
    <3>1. CASE k = n
      <4>1. RowExists(id)' /\ row.left \in -1..SESSION_EXTEND /\ row.left >= row.token
        BY <1>1, <1>4, <2>1, <2>5, AccountFacts, AccountsAssumption DEF StillThere, RowExists
      <4> QED BY <1>1, <2>2, <2>3, <2>4, <2>5, <2>6, <2>7, <3>1, <4>1 DEF SessionFits
    <3>2. CASE k # n
      <4>1. SessionFits(k, sessions[k]) /\ sessions'[k] \in {NoSession, sessions[k]}
        BY <2>7, <3>2, OfRequest
      <4>2. k <= logins => k <= logins'
        BY <2>2, <2>4, <2>6 DEF Logins
      <4> QED BY <1>1, <4>1, <4>2 DEF SessionFits, RowExists
    <3> QED BY <3>1, <3>2
  <2>9. ~crossed' => ~crossed
    BY <1>1 DEF Commits
  <2>10. \A k \in Rows' : k \in Logins /\ (k = n \/ (k \in Rows \ e /\ sessions'[k] = sessions[k]))
    BY <2>7 DEF Rows
  <2>11. PasswordChangeLogsOut'
    <3> SUFFICES ASSUME ~crossed', NEW k \in Rows', NEW j \in Idents, account[j].id = sessions'[k].player
                 PROVE  account[j].password = sessions'[k].password
      BY <1>1 DEF PasswordChangeLogsOut
    <3>1. CASE k = n
      BY <2>3, <2>5, <2>7, <2>9, <3>1
    <3>2. CASE k # n
      BY <2>9, <2>10, <3>2, OfRequest DEF PasswordChangeLogsOut
    <3> QED BY <3>1, <3>2
  <2>12. SessionsCapped'
    <3> SUFFICES ASSUME ~crossed', NEW x \in 1..born PROVE Cardinality(Of(x)') <= MAX_SESSIONS
      BY <1>1 DEF SessionsCapped
    <3>1. CASE x # id
      <4>1. Of(x)' \subseteq Of(x)
        BY <2>5, <2>7, <2>10, <3>1 DEF Of
      <4>2. Of(x) \in SUBSET Logins /\ Of(x)' \in SUBSET Of(x)
        BY <4>1, RowFacts
      <4>3. Cardinality(Of(x)) <= MAX_SESSIONS
        BY <2>9, OfRequest DEF SessionsCapped
      <4> QED BY <4>2, <4>3, FewerRows, AccountFacts
    <3>2. CASE x = id
      <4>1. Of(id)' \subseteq (Of(id) \ e) \union {n}
        BY <2>5, <2>7, <2>10 DEF Of
      <4>2. Of(id) \ e \in SUBSET Logins /\ (Of(id) \ e) \union {n} \in SUBSET Logins
        BY RowFacts
      <4>3. IsFiniteSet(Of(id) \ e) /\ Cardinality(Of(id) \ e) \in Nat
        BY <4>2, FiniteRows
      <4>4. Cardinality((Of(id) \ e) \union {n}) <= Cardinality(Of(id) \ e) + 1
        BY <4>2, OneMoreRow
      <4>5. /\ Cardinality(Of(id)') \in Nat /\ Cardinality((Of(id) \ e) \union {n}) \in Nat
            /\ Cardinality(Of(id)') <= Cardinality((Of(id) \ e) \union {n})
        BY <4>1, <4>2, FewerRows
      <4>6. Cardinality(Of(id) \ e) < MAX_SESSIONS
        BY <2>3, <2>9
      <4> QED BY <3>2, <4>3, <4>4, <4>5, <4>6, AccountFacts
    <3> QED BY <3>1, <3>2
  <2>13. AccountsApart'
    BY <1>1, OfRequest DEF AccountsApart
  <2>14. logins' \in 0..MaxLogins /\ born' \in 0..MaxAccounts /\ born' >= born
    BY <1>1, <2>2, <2>4, <2>6 DEF Logins
  <2>15. \A j \in Idents : account'[j].id \in {account[j].id, 0} \/ account'[j].id > born
    BY <1>1
  <2>16. account' \in [Idents -> AccountRows]
    BY <1>1, <2>2
  <2> QED BY <1>1, <1>2, <2>7, <2>8, <2>11, <2>12, <2>13, <2>14, <2>15, <2>16, CommitStep
<1> QED BY <1>3, <1>4

\* The hash and the sessions of a changed password are one commit.
LEMMA CommitPasswordOK ==
    ASSUME AccountsInv, NEW q \in AuthRequests, CommitPassword(q) PROVE AccountsInv'
<1>1. /\ auth[q] \in AuthRecords /\ auth[q].pc = "change" /\ Asked(auth[q])
      /\ Commits(q) /\ auth' = [auth EXCEPT ![q] = AtRest] /\ UNCHANGED <<born, logins>>
      /\ AtRest \in AuthRecords
  BY OfRequest, AccountFacts DEF CommitPassword, AuthAt, Ends
<1>2. Asked(AtRest)'
  BY AccountFacts DEF Asked
<1>3. CASE ~RowExists(auth[q].id)
  <2>1. UNCHANGED <<account, sessions>>
    BY <1>3 DEF CommitPassword
  <2> QED BY <1>1, <1>2, <2>1, EmptyCommit
<1>4. CASE RowExists(auth[q].id)
  <2>1. PICK id \in 1..born, word \in Passwords, i \in Idents :
            id = auth[q].id /\ word = auth[q].password /\ i = auth[q].ident
    BY <1>1 DEF AuthRecords, Asked
  <2>2. /\ born \in Nat /\ crossed \in BOOLEAN /\ born \in 0..MaxAccounts /\ logins \in 0..MaxLogins
        /\ sessions \in [Logins -> SessionRows] /\ account \in [Idents -> AccountRows]
        /\ AccountsApart
    BY OfRequest, AccountFacts
  <2>3. account[i].id = id /\ i \in Emails /\ \A j \in Idents : account[j].id = id => j = i
    BY <1>1, <1>4, <2>1 DEF Asked, RowExists
  <2>4. /\ account' = [account EXCEPT ![i].password = word]
        /\ sessions' = [k \in Logins |-> IF k \in Of(id) THEN NoSession ELSE sessions[k]]
    BY <1>4, <2>1 DEF CommitPassword, Revoked, Without
  <2>5. /\ account' \in [Idents -> AccountRows]
        /\ \A j \in Idents : account'[j].id = account[j].id
        /\ \A j \in Idents : j # i => account'[j] = account[j]
        /\ account'[i].password = word
    BY <2>2, <2>4 DEF AccountRows, Words
  <2>6. AccountsApart'
    BY <1>1, <2>1, <2>2, <2>3, <2>5, AccountFacts DEF AccountsApart
  <2>7. /\ sessions' \in [Logins -> SessionRows]
        /\ \A k \in Logins : sessions'[k] \in {NoSession, sessions[k]}
        /\ \A k \in Rows' : k \in Rows /\ sessions'[k] = sessions[k] /\ sessions[k].player # id
    BY <2>2, <2>4, AccountFacts DEF Rows, Of
  <2>8. \A k \in Logins : SessionFits(k, sessions[k])'
    BY <1>1, <2>5, <2>7, OfRequest DEF SessionFits, RowExists
  <2>9. ~crossed' => ~crossed
    BY <1>1 DEF Commits
  <2>10. PasswordChangeLogsOut'
    <3> SUFFICES ASSUME ~crossed', NEW k \in Rows', NEW j \in Idents, account'[j].id = sessions'[k].player
                 PROVE  account'[j].password = sessions'[k].password
      BY DEF PasswordChangeLogsOut
    <3>1. k \in Rows /\ sessions'[k] = sessions[k] /\ sessions[k].player # id
      BY <2>7
    <3>2. j # i
      BY <2>3, <2>5, <3>1
    <3> QED BY <2>5, <2>9, <3>1, <3>2, OfRequest DEF PasswordChangeLogsOut
  <2>11. SessionsCapped'
    <3> SUFFICES ASSUME ~crossed', NEW x \in 1..born PROVE Cardinality(Of(x)') <= MAX_SESSIONS
      BY <1>1 DEF SessionsCapped
    <3>1. Of(x)' \subseteq Of(x)
      BY <2>7 DEF Of
    <3>2. Of(x) \in SUBSET Logins /\ Of(x)' \in SUBSET Of(x)
      BY <3>1, RowFacts
    <3>3. Cardinality(Of(x)) <= MAX_SESSIONS
      BY <2>9, OfRequest DEF SessionsCapped
    <3> QED BY <3>2, <3>3, FewerRows, AccountFacts
  <2>12. logins' \in 0..MaxLogins /\ born' \in 0..MaxAccounts /\ born' >= born
         /\ \A j \in Idents : account'[j].id \in {account[j].id, 0} \/ account'[j].id > born
    BY <1>1, <2>2, <2>5
  <2> QED BY <1>1, <1>2, <2>5, <2>6, <2>7, <2>8, <2>10, <2>11, <2>12, CommitStep
<1> QED BY <1>3, <1>4

LEMMA PurgeOK ==
    ASSUME AccountsInv, NEW q \in AuthRequests, Purge(q) PROVE AccountsInv'
<1>1. /\ auth[q] \in AuthRecords /\ auth[q].pc = "erase" /\ Asked(auth[q])
      /\ Commits(q) /\ auth' = [auth EXCEPT ![q] = AtRest] /\ UNCHANGED <<born, logins>>
      /\ AtRest \in AuthRecords
  BY OfRequest, AccountFacts DEF Purge, AuthAt, Ends
<1>2. Asked(AtRest)'
  BY AccountFacts DEF Asked
<1>3. PICK id \in 1..born : id = auth[q].id
  BY <1>1 DEF Asked
<1>4. /\ born \in Nat /\ crossed \in BOOLEAN /\ born \in 0..MaxAccounts /\ logins \in 0..MaxLogins
      /\ sessions \in [Logins -> SessionRows] /\ account \in [Idents -> AccountRows]
      /\ AccountsApart
  BY OfRequest, AccountFacts
<1>5. /\ account' = [i \in Idents |-> IF account[i].id = id THEN NoAccount ELSE account[i]]
      /\ sessions' = [k \in Logins |-> IF k \in Of(id) THEN NoSession ELSE sessions[k]]
  BY <1>3 DEF Purge, Without
<1>6. /\ account' \in [Idents -> AccountRows]
      /\ \A j \in Idents : account[j].id # id => account'[j] = account[j]
      /\ \A j \in Idents : account[j].id = id => account'[j] = NoAccount
  BY <1>4, <1>5, AccountFacts
<1>7. AccountsApart'
  BY <1>1, <1>4, <1>6, AccountFacts DEF AccountsApart
<1>8. /\ sessions' \in [Logins -> SessionRows]
      /\ \A k \in Logins : sessions'[k] \in {NoSession, sessions[k]}
      /\ \A k \in Logins : sessions'[k] # NoSession =>
            k \in Rows /\ sessions'[k] = sessions[k] /\ sessions[k].player # id
  BY <1>4, <1>5, AccountFacts DEF Rows, Of
<1>9. \A k \in Logins : SessionFits(k, sessions[k])'
  <2> SUFFICES ASSUME NEW k \in Logins, sessions'[k] # NoSession PROVE SessionFits(k, sessions[k])'
    BY DEF SessionFits
  <2>1. SessionFits(k, sessions[k]) /\ sessions'[k] = sessions[k] /\ sessions[k].player # id
    BY <1>8, OfRequest
  <2>2. RowExists(sessions[k].player)'
    BY <1>6, <1>8, <2>1 DEF SessionFits, RowExists
  <2> QED BY <1>1, <2>1, <2>2 DEF SessionFits
<1>10. ~crossed' => ~crossed
  BY <1>1, <1>4 DEF Commits
<1>11. PasswordChangeLogsOut'
  <2> SUFFICES ASSUME ~crossed', NEW k \in Logins, sessions'[k] # NoSession, NEW j \in Idents,
                      account'[j].id = sessions'[k].player
               PROVE  account'[j].password = sessions'[k].password
    BY DEF PasswordChangeLogsOut, Rows
  <2>1. k \in Rows /\ sessions'[k] = sessions[k] /\ sessions[k].player # 0
    BY <1>8, OfRequest DEF SessionFits
  <2>2. account'[j] = account[j]
    BY <1>6, <2>1, AccountFacts
  <2> QED BY <1>10, <2>1, <2>2, OfRequest DEF PasswordChangeLogsOut
<1>12. SessionsCapped'
  <2> SUFFICES ASSUME ~crossed', NEW x \in 1..born PROVE Cardinality(Of(x)') <= MAX_SESSIONS
    BY <1>1 DEF SessionsCapped
  <2>1. Of(x)' \subseteq Of(x)
    BY <1>8 DEF Of, Rows
  <2>2. Of(x) \in SUBSET Logins /\ Of(x)' \in SUBSET Of(x)
    BY <2>1, RowFacts
  <2>3. Cardinality(Of(x)) <= MAX_SESSIONS
    BY <1>10, OfRequest DEF SessionsCapped
  <2> QED BY <2>2, <2>3, FewerRows, AccountFacts
<1>13. logins' \in 0..MaxLogins /\ born' \in 0..MaxAccounts /\ born' >= born
       /\ \A j \in Idents : account'[j].id \in {account[j].id, 0} \/ account'[j].id > born
  BY <1>1, <1>4, <1>6, AccountFacts
<1> QED BY <1>1, <1>2, <1>6, <1>7, <1>8, <1>9, <1>11, <1>12, <1>13, CommitStep

\* A step on the sessions, which adds none and moves none to another player.
LEMMA SessionsStep ==
    ASSUME AccountsInv, sessions' \in [Logins -> SessionRows],
           \A k \in Logins : SessionFits(k, sessions'[k]),
           \A k \in Logins : sessions'[k] # NoSession =>
               /\ sessions[k] # NoSession
               /\ sessions'[k].player = sessions[k].player /\ sessions'[k].password = sessions[k].password,
           crossed' \in BOOLEAN, ~crossed' => ~crossed, UNCHANGED <<account, born, logins, auth>>
    PROVE  AccountsInv'
<1>1. AccountTypes' /\ AccountsApart'
  BY DEF AccountsInv, AccountTypes, AccountsApart
<1>2. (\A k \in Logins : SessionFits(k, sessions[k]))'
  BY DEF SessionFits, RowExists
<1>3. \A x : Of(x)' \subseteq Of(x)
  BY DEF Of, Rows
<1>4. \A x : \A e : Cardinality(Of(x)' \ e) <= Cardinality(Of(x) \ e) /\ Cardinality(Of(x)' \ e) \in Nat
                    /\ Cardinality(Of(x) \ e) \in Nat
  <2> SUFFICES ASSUME NEW x, NEW e
               PROVE  Cardinality(Of(x)' \ e) <= Cardinality(Of(x) \ e) /\ Cardinality(Of(x)' \ e) \in Nat
                      /\ Cardinality(Of(x) \ e) \in Nat
    OBVIOUS
  <2>1. Of(x) \ e \in SUBSET Logins /\ Of(x)' \ e \in SUBSET (Of(x) \ e)
    BY <1>3, RowFacts
  <2> QED BY <2>1, FewerRows
<1>5. (\A q \in AuthRequests : Asked(auth[q]))'
  <2> SUFFICES ASSUME NEW q \in AuthRequests PROVE Asked(auth[q])'
    OBVIOUS
  <2>1. Asked(auth[q]) /\ auth' = auth
    BY DEF AccountsInv
  <2>2. PICK w : w = auth[q]
    OBVIOUS
  <2>3. ~crossed' /\ w.pc = "commit" => Cardinality(Of(w.id) \ w.evict) < MAX_SESSIONS
    BY <2>1, <2>2 DEF Asked
  <2>4. ~crossed' /\ w.pc = "commit" => Cardinality(Of(w.id)' \ w.evict) < MAX_SESSIONS
    <3>1. PICK x, e : x = w.id /\ e = w.evict
      OBVIOUS
    <3>2. /\ Cardinality(Of(x)' \ e) <= Cardinality(Of(x) \ e)
          /\ Cardinality(Of(x)' \ e) \in Nat /\ Cardinality(Of(x) \ e) \in Nat
      BY <1>4
    <3>3. ~crossed' /\ w.pc = "commit" => Cardinality(Of(x) \ e) < MAX_SESSIONS
      BY <2>3, <3>1
    <3>4. ~crossed' /\ w.pc = "commit" => Cardinality(Of(x)' \ e) < MAX_SESSIONS
      BY <3>2, <3>3, AccountFacts
    <3> QED BY <3>1, <3>4
  <2> QED BY <2>1, <2>2, <2>4 DEF Asked
<1>6. PasswordChangeLogsOut'
  BY DEF AccountsInv, PasswordChangeLogsOut, Rows
<1>7. SessionsCapped'
  <2> SUFFICES ASSUME ~crossed', NEW x \in 1..born PROVE Cardinality(Of(x)') <= MAX_SESSIONS
    BY DEF SessionsCapped
  <2>1. Cardinality(Of(x)' \ {}) <= Cardinality(Of(x) \ {}) /\ Cardinality(Of(x)' \ {}) \in Nat
        /\ Cardinality(Of(x) \ {}) \in Nat
    BY <1>4
  <2>2. Of(x) \ {} = Of(x) /\ Of(x)' \ {} = Of(x)'
    OBVIOUS
  <2>3. Cardinality(Of(x)) <= MAX_SESSIONS
    BY DEF AccountsInv, SessionsCapped
  <2> QED BY <2>1, <2>2, <2>3, AccountFacts
<1> QED BY <1>1, <1>2, <1>5, <1>6, <1>7 DEF AccountsInv

LEMMA CallOK == ASSUME AccountsInv, NEW k \in Logins, Call(k) PROVE AccountsInv'
<1> DEFINE s == sessions[k]
           t == [Slid(s) EXCEPT !.token = ACCESS_EXPIRE]
<1>1. /\ s \in SessionRows /\ SessionFits(k, s) /\ s # NoSession /\ s.left >= 0
      /\ sessions \in [Logins -> SessionRows] /\ \A j \in Logins : SessionFits(j, sessions[j])
      /\ UNCHANGED <<account, born, logins, auth, crossed>> /\ crossed \in BOOLEAN
  <2>1. AccountTypes /\ \A j \in Logins : SessionFits(j, sessions[j])
    BY DEF AccountsInv
  <2> QED BY <2>1 DEF Call, Rows, Admitted, AccountTypes
<1>2. sessions' = [sessions EXCEPT ![k] = t]
  BY DEF Call
<1> HIDE DEF s
<1>3. /\ Slid(s) \in SessionRows /\ Slid(s).player = s.player /\ Slid(s).password = s.password
      /\ Slid(s).left \in 0..SESSION_EXTEND /\ Slid(s).left >= SLIDE_THRESHOLD
  <2>1. s.left \in -1..SESSION_EXTEND /\ s.left \in Int
    BY <1>1 DEF SessionFits, SessionRows
  <2>2. CASE s.left < SLIDE_THRESHOLD
    <3>1. Slid(s) = [s EXCEPT !.left = SESSION_EXTEND]
      BY <2>2 DEF Slid
    <3> QED BY <1>1, <2>1, <3>1, AccountFacts, AccountsAssumption DEF SessionRows
  <2>3. CASE ~(s.left < SLIDE_THRESHOLD)
    <3>1. Slid(s) = s
      BY <2>3 DEF Slid
    <3> QED BY <1>1, <2>1, <2>3, <3>1, AccountFacts
  <2> QED BY <2>2, <2>3
<1>4. /\ t \in SessionRows /\ t.player = s.player /\ t.password = s.password
      /\ t.left = Slid(s).left /\ t.token = ACCESS_EXPIRE
  BY <1>3, AccountFacts DEF SessionRows
<1> HIDE DEF t
<1>5. SessionFits(k, t)
  <2>1. t.left \in -1..SESSION_EXTEND /\ t.left >= t.token
    BY <1>3, <1>4, AccountFacts, AccountsAssumption
  <2> QED BY <1>1, <1>4, <2>1 DEF SessionFits
<1>6. /\ sessions' \in [Logins -> SessionRows] /\ sessions'[k] = t
      /\ \A j \in Logins : j # k => sessions'[j] = sessions[j]
  BY <1>1, <1>2, <1>4
<1>7. \A j \in Logins : SessionFits(j, sessions'[j])
  BY <1>1, <1>5, <1>6
<1> QED BY <1>1, <1>4, <1>6, <1>7, SessionsStep DEF s

LEMMA LogoutOK == ASSUME AccountsInv, NEW k \in Logins, Logout(k) PROVE AccountsInv'
<1>1. /\ sessions \in [Logins -> SessionRows] /\ \A j \in Logins : SessionFits(j, sessions[j])
      /\ UNCHANGED <<account, born, logins, auth>> /\ crossed \in BOOLEAN
      /\ crossed' = (crossed \/ \E r \in AuthRequests : ~Idle(r))
      /\ sessions' = [j \in Logins |-> IF j \in {k} THEN NoSession ELSE sessions[j]]
  BY DEF Logout, Without, AccountsInv, AccountTypes
<1>2. sessions' \in [Logins -> SessionRows] /\ \A j \in Logins : sessions'[j] \in {NoSession, sessions[j]}
  BY <1>1, AccountFacts
<1>3. \A j \in Logins : SessionFits(j, sessions'[j])
  BY <1>1, <1>2 DEF SessionFits
<1> QED BY <1>1, <1>2, <1>3, SessionsStep

LEMMA TimePassesOK == ASSUME AccountsInv, TimePasses PROVE AccountsInv'
<1>1. /\ sessions \in [Logins -> SessionRows] /\ \A j \in Logins : SessionFits(j, sessions[j])
      /\ UNCHANGED <<account, born, logins, auth, crossed>> /\ crossed \in BOOLEAN
      /\ sessions' = [j \in Logins |-> IF j \in Rows THEN Older(sessions[j]) ELSE NoSession]
  BY DEF TimePasses, AccountsInv, AccountTypes
<1>2. ASSUME NEW j \in Logins, j \in Rows
      PROVE  /\ Older(sessions[j]) \in SessionRows /\ SessionFits(j, Older(sessions[j]))
             /\ Older(sessions[j]).player = sessions[j].player
             /\ Older(sessions[j]).password = sessions[j].password
  <2> DEFINE s == sessions[j]
             days == IF s.left < 0 THEN s.left ELSE s.left - 1
             ticks == IF s.token = 0 THEN s.token ELSE s.token - 1
             t == [s EXCEPT !.left = days, !.token = ticks]
  <2>1. /\ s \in SessionRows /\ s.left \in -1..SESSION_EXTEND /\ s.token \in Nat /\ j <= logins
        /\ s.player \in 1..born /\ RowExists(s.player) /\ (s.token > 0 => s.left >= s.token)
    BY <1>1, <1>2 DEF SessionFits, Rows, SessionRows
  <2>2. days \in -1..SESSION_EXTEND /\ days \in Int /\ ticks \in Nat /\ (ticks > 0 => days >= ticks)
    BY <2>1, AccountFacts
  <2>3. Older(s) = t
    BY DEF Older
  <2> HIDE DEF s, days, ticks
  <2>4. t \in SessionRows /\ t.left = days /\ t.token = ticks /\ t.player = s.player /\ t.password = s.password
    BY <2>1, <2>2 DEF SessionRows
  <2>5. SessionFits(j, t)
    BY <2>1, <2>2, <2>4 DEF SessionFits
  <2> QED BY <2>3, <2>4, <2>5 DEF s
<1>3. \A j \in Logins : (IF j \in Rows THEN Older(sessions[j]) ELSE NoSession) \in SessionRows
  BY <1>2, AccountFacts
<1>4. sessions' \in [Logins -> SessionRows]
      /\ \A j \in Logins : sessions'[j] = IF j \in Rows THEN Older(sessions[j]) ELSE NoSession
  BY <1>1, <1>3
<1>5. \A j \in Logins : SessionFits(j, sessions'[j])
  BY <1>2, <1>4 DEF SessionFits
<1>6. ASSUME NEW j \in Logins, sessions'[j] # NoSession
      PROVE  /\ sessions[j] # NoSession
             /\ sessions'[j].player = sessions[j].player /\ sessions'[j].password = sessions[j].password
  <2>1. j \in Rows
    BY <1>4, <1>6
  <2> QED BY <1>2, <1>4, <2>1 DEF Rows
<1>7. crossed' \in BOOLEAN /\ (~crossed' => ~crossed)
  BY <1>1
<1> QED BY <1>1, <1>4, <1>5, <1>6, <1>7, SessionsStep

LEMMA AccountsStart == AccountsInit => AccountsInv
<1> SUFFICES ASSUME AccountsInit PROVE AccountsInv
  OBVIOUS
<1>1. AccountTypes
  <2>1. account \in [Idents -> AccountRows] /\ sessions \in [Logins -> SessionRows]
    BY AccountFacts DEF AccountsInit
  <2>2. auth \in [AuthRequests -> AuthRecords]
    BY AccountFacts DEF AccountsInit
  <2>3. 0 \in 0..MaxAccounts /\ 0 \in 0..MaxLogins
    BY AccountFacts
  <2>4. born \in 0..MaxAccounts /\ logins \in 0..MaxLogins /\ crossed \in BOOLEAN
    BY <2>3 DEF AccountsInit
  <2> QED BY <2>1, <2>2, <2>4 DEF AccountTypes
<1>2. AccountsApart
  BY AccountFacts DEF AccountsInit, AccountsApart
<1>3. \A k \in Logins : SessionFits(k, sessions[k])
  BY DEF AccountsInit, SessionFits
<1>4. \A q \in AuthRequests : Asked(auth[q])
  BY AccountFacts DEF AccountsInit, Asked
<1>5. Rows = {} /\ \A x : Of(x) = {}
  BY DEF Rows, Of, AccountsInit
<1>6. PasswordChangeLogsOut
  BY <1>5 DEF PasswordChangeLogsOut
<1>7. SessionsCapped
  BY <1>5, FS_EmptySet, AccountFacts DEF SessionsCapped
<1> QED BY <1>1, <1>2, <1>3, <1>4, <1>6, <1>7 DEF AccountsInv

LEMMA AccountsQuiet == ASSUME AccountsInv, UNCHANGED accountVars PROVE AccountsInv'
<1>1. sessions \in [Logins -> SessionRows] /\ crossed \in BOOLEAN
      /\ UNCHANGED <<account, born, sessions, logins, auth, crossed>>
  BY DEF AccountsInv, AccountTypes, accountVars
<1>2. \A k \in Logins : SessionFits(k, sessions'[k])
  BY <1>1 DEF AccountsInv
<1> QED BY <1>1, <1>2, SessionsStep

\* What each request has read of the players and sessions rows, and that it still holds
\* when no commit has come between, for any identities, requests, cap and lifetimes.
THEOREM AccountsInvariance == AccountsSpec => []AccountsInv
<1>1. AccountsInv /\ [AccountsNext]_accountVars => AccountsInv'
  <2> SUFFICES ASSUME AccountsInv, [AccountsNext]_accountVars PROVE AccountsInv'
    OBVIOUS
  <2>1. CASE TimePasses
    BY <2>1, TimePassesOK
  <2>2. CASE \E k \in Logins : Call(k) \/ Logout(k)
    BY <2>2, CallOK, LogoutOK
  <2>3. ASSUME NEW q \in AuthRequests,
               \/ InsertPlayer(q) \/ LogNewPlayerIn(q) \/ CreatePlayer(q) \/ UseOtherRow(q)
               \/ ReadSessions(q) \/ IssueSession(q) \/ CommitPassword(q) \/ Purge(q)
        PROVE  AccountsInv'
    BY <2>3, InsertPlayerOK, LogNewPlayerInOK, CreatePlayerOK, UseOtherRowOK, ReadSessionsOK,
       IssueSessionOK, CommitPasswordOK, PurgeOK
  <2>4. ASSUME NEW q \in AuthRequests, NEW i \in Idents, LoginWithLichess(q, i) \/ AskErasure(q, i)
        PROVE  AccountsInv'
    BY <2>4, LoginWithLichessOK, AskErasureOK
  <2>5. ASSUME NEW q \in AuthRequests, NEW i \in Idents, NEW password \in Passwords,
               Register(q, i, password) \/ Login(q, i, password)
        PROVE  AccountsInv'
    BY <2>5, RegisterOK, LoginOK
  <2>6. ASSUME NEW q \in AuthRequests, NEW k \in Logins, NEW password \in Passwords,
               ChangePassword(q, k, password)
        PROVE  AccountsInv'
    BY <2>6, ChangePasswordOK
  <2>7. CASE UNCHANGED accountVars
    BY <2>7, AccountsQuiet
  <2> QED BY <2>1, <2>2, <2>3, <2>4, <2>5, <2>6, <2>7 DEF AccountsNext
<1> QED BY <1>1, AccountsStart, PTL DEF AccountsSpec

\* auth/service.py: no session outlives its account, and none its own token; and as long
\* as no commit falls between the read and the commit of another request, the sessions of
\* a player stay within the cap and were opened with the present password.
THEOREM AccountsAreSafe == AccountsSpec => []AccountsSafe
<1>1. AccountsInv => AccountsSafe
  <2> SUFFICES ASSUME AccountsInv PROVE AccountsSafe
    OBVIOUS
  <2>1. AccountTypes /\ AccountsApart /\ PasswordChangeLogsOut /\ SessionsCapped
        /\ \A k \in Logins : SessionFits(k, sessions[k])
    BY DEF AccountsInv
  <2>2. NoSessionOfErasedPlayer
    BY <2>1 DEF NoSessionOfErasedPlayer, SessionFits, Rows
  <2>3. SessionOutlivesToken
    <3> SUFFICES ASSUME NEW k \in Rows, sessions[k].token > 0 PROVE ~Expired(k)
      BY DEF SessionOutlivesToken
    <3>1. sessions[k].left >= sessions[k].token /\ sessions[k].left \in Int /\ sessions[k].token \in Nat
      BY <2>1 DEF Rows, SessionFits, AccountTypes, SessionRows
    <3> QED BY <3>1 DEF Expired
  <2>4. AccountsTypeOK
    <3>1. \A i \in Idents : account[i].id \in 0..born
      BY <2>1 DEF AccountTypes, AccountsApart, AccountRows
    <3>2. \A q \in AuthRequests : auth[q].pc \in AuthSteps \union {"idle"}
      BY <2>1 DEF AccountTypes, AuthRecords
    <3>3. \A k \in Logins : sessions[k] # NoSession =>
             k <= logins /\ sessions[k].player \in 1..born /\ sessions[k].left \in -1..SESSION_EXTEND
      BY <2>1 DEF SessionFits
    <3> QED BY <2>1, <3>1, <3>2, <3>3 DEF AccountsTypeOK, AccountTypes, AccountsApart, AuthSteps
  <2> QED BY <2>1, <2>2, <2>3, <2>4 DEF AccountsSafe
<1> QED BY <1>1, AccountsInvariance, PTL

=============================================================================
