---------------------------- MODULE Device_proofs ----------------------------
(***************************************************************************)
(* Theorems about the Android app: the finish it keeps until the server    *)
(* has it, the game screen, and the puzzle trainer.                        *)
(***************************************************************************)
EXTENDS PendingFinish, PlayScreen, PuzzleTrainer, FiniteSetTheorems, SequenceTheorems, TLAPS

-----------------------------------------------------------------------------
(* The pending finish (PendingFinish) *)

\* One activity at a time runs a retry.
OneRetry ==
    \A a, b \in Activities : retrying[a] # NoPayload /\ retrying[b] # NoPayload => a = b

\* What is saved or retried is a game that is over, and whose own call is too.
OwnCallsOver ==
    /\ \A g \in DeviceGames : finishing[g] > 0 => g \in over
    /\ slot # NoPayload => slot \in over /\ finishing[slot] = 0
    /\ \A a \in Activities : retrying[a] # NoPayload =>
          retrying[a].game \in over /\ finishing[retrying[a].game] = 0

PendingInv == PendingTypeOK /\ FlagTracksRetry /\ OneRetry /\ OwnCallsOver /\ GivenUpSettled

\* A call is not the absence of one.
LEMMA RetryCalls ==
    /\ \A g \in DeviceGames : NewCall(g) \in CallRecords /\ NewCall(g).game = g
    /\ \A c \in CallRecords : c # NoPayload /\ c.game \in DeviceGames /\ c.left \in 1..MaxAttempts
    /\ \A c \in CallRecords : c.left > 1 =>
          [c EXCEPT !.left = @ - 1] \in CallRecords /\ [c EXCEPT !.left = @ - 1].game = c.game
<1>1. \A g \in DeviceGames : NewCall(g) \in CallRecords /\ NewCall(g).game = g
  BY PendingFinishAssumption DEF NewCall, CallRecords
<1>2. \A c \in CallRecords : c # NoPayload
  BY PendingFinishAssumption DEF CallRecords
<1>3. \A c \in CallRecords : c.game \in DeviceGames /\ c.left \in 1..MaxAttempts
  BY DEF CallRecords
<1>4. ASSUME NEW c \in CallRecords, c.left > 1
      PROVE  [c EXCEPT !.left = @ - 1] \in CallRecords /\ [c EXCEPT !.left = @ - 1].game = c.game
  <2>1. c.left - 1 \in 1..MaxAttempts
    BY <1>3, <1>4, PendingFinishAssumption
  <2> QED BY <2>1 DEF CallRecords
<1> QED BY <1>1, <1>2, <1>3, <1>4

LEMMA PendingStarts == PendingInit => PendingInv
<1>1. PendingInit => PendingTypeOK
  <2>1. 0 \in 0..MaxAttempts
    BY PendingFinishAssumption
  <2> QED BY <2>1 DEF PendingInit, PendingTypeOK
<1>2. PendingInit => FlagTracksRetry /\ OneRetry /\ OwnCallsOver /\ GivenUpSettled
  BY DEF PendingInit, FlagTracksRetry, OneRetry, OwnCallsOver, GivenUpSettled
<1> QED BY <1>1, <1>2 DEF PendingInv

\* What an attempt brought back is learned: a game is given up when the server
\* has it or has refused it.
LEMMA LearnSettles ==
    ASSUME PendingInv, NEW g \in DeviceGames, NEW o \in CallOutcomes, Possible(g, o), Learn(g, o),
           UNCHANGED server
    PROVE  GivenUpSettled' /\ refused' \subseteq DeviceGames /\ givenUp' \subseteq DeviceGames
BY DEF PendingInv, PendingTypeOK, GivenUpSettled, Possible, Learn, CallOutcomes, KeepsPayload,
       IsTransient

LEMMA FinishSteps ==
    ASSUME PendingInv, NEW g \in DeviceGames,
           \/ GameOver(g) \/ FinishRepeats(g)
           \/ \E o \in CallOutcomes : FinishReturns(g, o)
    PROVE  PendingInv'
<1> USE PendingFinishAssumption
<1>0. \A h \in DeviceGames : finishing[h] \in 0..MaxAttempts
  BY DEF PendingInv, PendingTypeOK
<1>1. CASE GameOver(g)
  <2>1. PendingTypeOK'
    BY <1>1 DEF GameOver, PendingInv, PendingTypeOK
  <2>2. FlagTracksRetry' /\ OneRetry' /\ GivenUpSettled'
    BY <1>1 DEF GameOver, PendingInv, FlagTracksRetry, OneRetry, GivenUpSettled
  <2>3. OwnCallsOver'
    BY <1>1, RetryCalls DEF GameOver, PendingInv, PendingTypeOK, OwnCallsOver
  <2> QED BY <2>1, <2>2, <2>3 DEF PendingInv
<1>2. CASE FinishRepeats(g)
  <2>1. finishing[g] > 1 /\ finishing[g] - 1 \in 0..MaxAttempts
    BY <1>0, <1>2 DEF FinishRepeats, Repeats
  <2>2. PendingTypeOK'
    BY <1>2, <2>1 DEF FinishRepeats, PendingInv, PendingTypeOK
  <2>3. FlagTracksRetry' /\ OneRetry' /\ GivenUpSettled'
    BY <1>2 DEF FinishRepeats, PendingInv, FlagTracksRetry, OneRetry, GivenUpSettled
  <2>4. OwnCallsOver'
    BY <1>2, <2>1, RetryCalls DEF FinishRepeats, PendingInv, PendingTypeOK, OwnCallsOver
  <2> QED BY <2>2, <2>3, <2>4 DEF PendingInv
<1>3. ASSUME NEW o \in CallOutcomes, FinishReturns(g, o) PROVE PendingInv'
  <2>1. GivenUpSettled' /\ refused' \subseteq DeviceGames /\ givenUp' \subseteq DeviceGames
    BY <1>3, LearnSettles DEF FinishReturns
  <2>2. PendingTypeOK'
    BY <1>3, <2>1 DEF FinishReturns, PendingInv, PendingTypeOK
  <2>3. FlagTracksRetry' /\ OneRetry'
    BY <1>3 DEF FinishReturns, PendingInv, FlagTracksRetry, OneRetry
  <2>4. OwnCallsOver'
    BY <1>0, <1>3, RetryCalls DEF FinishReturns, PendingInv, PendingTypeOK, OwnCallsOver
  <2> QED BY <2>1, <2>2, <2>3, <2>4 DEF PendingInv
<1> QED BY <1>1, <1>2, <1>3

LEMMA RetrySteps ==
    ASSUME PendingInv, NEW a \in Activities,
           \/ Create(a) \/ RetryRepeats(a) \/ Destroy(a)
           \/ \E o \in CallOutcomes : RetryReturns(a, o)
    PROVE  PendingInv'
<1> USE PendingFinishAssumption
<1>0. \A b \in Activities : retrying[b] # NoPayload => retrying[b] \in CallRecords
  BY DEF PendingInv, PendingTypeOK
<1>1. CASE Create(a) /\ MayRetry
  <2>1. slot \in DeviceGames /\ NewCall(slot) \in CallRecords /\ NewCall(slot) # NoPayload
        /\ NewCall(slot).game = slot
    BY <1>1, RetryCalls DEF MayRetry, PendingInv, PendingTypeOK
  <2>2. \A b \in Activities : retrying[b] = NoPayload
    BY <1>1 DEF MayRetry, PendingInv, FlagTracksRetry
  <2>3. PendingTypeOK'
    BY <1>1, <2>1 DEF Create, PendingInv, PendingTypeOK
  <2>4. FlagTracksRetry' /\ OneRetry' /\ GivenUpSettled'
    BY <1>1, <2>1, <2>2
    DEF Create, PendingInv, PendingTypeOK, FlagTracksRetry, OneRetry, GivenUpSettled
  <2>5. OwnCallsOver'
    BY <1>1, <2>1, <2>2 DEF Create, PendingInv, PendingTypeOK, OwnCallsOver
  <2> QED BY <2>3, <2>4, <2>5 DEF PendingInv
<1>2. CASE Create(a) /\ ~MayRetry
  BY <1>2 DEF Create, PendingInv, PendingTypeOK, FlagTracksRetry, OneRetry, OwnCallsOver,
              GivenUpSettled
<1>3. CASE RetryRepeats(a)
  <2>1. retrying[a] \in CallRecords /\ retrying[a].left > 1
    BY <1>0, <1>3 DEF RetryRepeats, Repeats
  <2> DEFINE c == [retrying[a] EXCEPT !.left = @ - 1]
  <2>2. c \in CallRecords /\ c # NoPayload /\ c.game = retrying[a].game /\ c.game \in DeviceGames
    BY <2>1, RetryCalls
  <2>3. retrying' = [retrying EXCEPT ![a] = c]
    BY <1>3 DEF RetryRepeats
  <2> HIDE DEF c
  <2>4. PendingTypeOK'
    BY <1>3, <2>2, <2>3 DEF RetryRepeats, PendingInv, PendingTypeOK
  <2>5. FlagTracksRetry' /\ OneRetry' /\ GivenUpSettled'
    BY <1>3, <2>2, <2>3
    DEF RetryRepeats, PendingInv, PendingTypeOK, FlagTracksRetry, OneRetry, GivenUpSettled
  <2>6. OwnCallsOver'
    BY <1>3, <2>2, <2>3 DEF RetryRepeats, PendingInv, PendingTypeOK, OwnCallsOver
  <2> QED BY <2>4, <2>5, <2>6 DEF PendingInv
<1>4. CASE Destroy(a)
  <2>1. PendingTypeOK'
    BY <1>4 DEF Destroy, PendingInv, PendingTypeOK
  <2>2. FlagTracksRetry' /\ OneRetry' /\ GivenUpSettled'
    BY <1>4 DEF Destroy, PendingInv, PendingTypeOK, FlagTracksRetry, OneRetry, GivenUpSettled
  <2>3. OwnCallsOver'
    BY <1>4, RetryCalls, <1>0 DEF Destroy, PendingInv, PendingTypeOK, OwnCallsOver
  <2> QED BY <2>1, <2>2, <2>3 DEF PendingInv
<1>5. ASSUME NEW o \in CallOutcomes, RetryReturns(a, o) PROVE PendingInv'
  <2>1. retrying[a].game \in DeviceGames
    BY <1>0, <1>5, RetryCalls DEF RetryReturns
  <2>2. GivenUpSettled' /\ refused' \subseteq DeviceGames /\ givenUp' \subseteq DeviceGames
    BY <1>5, <2>1, LearnSettles DEF RetryReturns
  <2>3. PendingTypeOK'
    BY <1>5, <2>2 DEF RetryReturns, PendingInv, PendingTypeOK
  <2>4. FlagTracksRetry' /\ OneRetry'
    BY <1>5 DEF RetryReturns, PendingInv, PendingTypeOK, FlagTracksRetry, OneRetry
  <2>5. OwnCallsOver'
    BY <1>5 DEF RetryReturns, PendingInv, PendingTypeOK, OwnCallsOver
  <2> QED BY <2>2, <2>3, <2>4, <2>5 DEF PendingInv
<1> QED BY <1>1, <1>2, <1>3, <1>4, <1>5

\* The inductive invariant holds for any games and any number of attempts.
THEOREM PendingInvariance == PendingSpec => []PendingInv
<1>1. PendingInv /\ [PendingNext]_pendingVars => PendingInv'
  <2> SUFFICES ASSUME PendingInv, [PendingNext]_pendingVars PROVE PendingInv'
    OBVIOUS
  <2> USE DEF PendingInv, PendingTypeOK, FlagTracksRetry, OneRetry, OwnCallsOver, GivenUpSettled
  <2>1. CASE UNCHANGED pendingVars
    BY <2>1 DEF pendingVars
  <2>2. CASE Discard
    BY <2>2 DEF Discard
  <2>3. ASSUME NEW g \in DeviceGames, NEW full \in BOOLEAN, Handle(g, full) PROVE PendingInv'
    BY <2>3 DEF Handle
  <2>4. ASSUME NEW g \in DeviceGames, LosePost(g) PROVE PendingInv'
    BY <2>4 DEF LosePost
  <2> QED BY <2>1, <2>2, <2>3, <2>4, FinishSteps, RetrySteps DEF PendingNext, Client
<1> QED BY <1>1, PendingStarts, PTL DEF PendingSpec

\* However activities come and go and replies are late, a payload is posted by
\* one call at a time, the flag is up exactly while a retry runs, and a game is
\* given up only when the server has it or has refused it.
THEOREM PendingIsSafe == PendingSpec => []PendingSafe
<1>1. PendingInv => PendingSafe
  <2> SUFFICES ASSUME PendingInv PROVE PendingSafe
    OBVIOUS
  <2>1. ASSUME NEW g \in DeviceGames
        PROVE  LET calls == {a \in Activities : retrying[a] # NoPayload /\ retrying[a].game = g}
               IN  Cardinality(calls) <= 1 /\ (finishing[g] > 0 => calls = {})
    <3> DEFINE calls == {a \in Activities : retrying[a] # NoPayload /\ retrying[a].game = g}
    <3>1. finishing[g] > 0 => calls = {}
      BY DEF PendingInv, OwnCallsOver
    <3>2. CASE calls = {}
      BY <3>1, <3>2, FS_EmptySet
    <3>3. ASSUME NEW a \in calls PROVE Cardinality(calls) = 1
      <4>1. calls = {a}
        BY <3>3 DEF PendingInv, OneRetry
      <4> QED BY <4>1, FS_Singleton
    <3> QED BY <3>1, <3>2, <3>3
  <2> QED BY <2>1 DEF PendingInv, PendingSafe, NoDoubleFire
<1> QED BY <1>1, PendingInvariance, PTL

-----------------------------------------------------------------------------
(* The game screen (PlayScreen) *)

\* The records of the screen's state.
Boards == [plies : Seq(Sides), white : BOOLEAN, undoable : Nat, over : BOOLEAN, ended : BOOLEAN,
           selected : Sides \union {"none"}, choosing : BOOLEAN]
Plies == [side : Sides, of : Nat]
Plays == [turn : {"HUMAN", "AI"}, thinking : BOOLEAN, id : Nat, history : Seq(Plies), hint : SUBSET Nat]
TapRecords == [at : {"idle", "launched", "applied", "coaching"}, of : Nat, side : Sides,
               result : MoveKinds \union {"FAILED"}]
JobRecords == [at : {"idle", "asked", "searching", "replied"}, of : Nat, plies : Seq(Sides),
               white : BOOLEAN, over : BOOLEAN, saves : BOOLEAN]
Snapshots == [plies : Seq(Sides), white : BOOLEAN, history : Seq(Sides), current : BOOLEAN]

\* Types; the undo stack is a part of the board; no coroutine is of a state to come.
ScreenTypes ==
    /\ board \in Boards /\ play \in Plays /\ saved \in Snapshots
    /\ taps \in [Taps -> TapRecords] /\ aiJobs \in [AiJobs -> JobRecords]
    /\ resumed \in BOOLEAN /\ hasty \in BOOLEAN
    /\ board.undoable <= Len(board.plies)
    /\ board.over \/ board.choosing => Len(board.plies) > 0
    /\ play.id <= MaxResets[hasty]
    /\ \A t \in Taps : taps[t].of <= play.id
    /\ \A r \in AiJobs : aiJobs[r].of <= play.id

\* A move that the main thread has not seen through, and one that is or may be made.
InHand(t) == taps[t].at \in {"launched", "applied"}
Made(t) == taps[t].at = "applied" /\ taps[t].result = "SUCCESS"
Moving(t) == taps[t].at = "launched" \/ Made(t)

\* A reply that is under way for the state on the screen.
Live(r) == aiJobs[r].at \in {"asked", "searching"} /\ aiJobs[r].of = play.id

NoneReplied == \A r \in AiJobs : aiJobs[r].at # "replied"

\* What the player who waits for the app never sees otherwise: one move at a
\* time, of this state, on the player's turn, which nothing else disturbs; a
\* dialog only then; one reply at a time, on the engine's turn and for a game
\* that goes on; and a flag that is up only for a reply.
OneMove ==
    /\ \A t, u \in Taps : InHand(t) /\ InHand(u) => t = u
    /\ \A t \in Taps : InHand(t) => taps[t].of = play.id
    /\ \A t \in Taps : Moving(t) => play.turn = "HUMAN" /\ NoneReplied /\ ~board.choosing
    /\ \A t \in Taps : Made(t) /\ board.over => board.ended
    /\ board.ended => \E t \in Taps : Made(t)
DialogOnTurn == board.choosing => play.turn = "HUMAN" /\ NoneReplied /\ ~board.over
OneReply ==
    /\ play.turn = "HUMAN" => \A r \in AiJobs : ~Live(r)
    /\ \A r, s \in AiJobs : Live(r) /\ Live(s) => r = s
    /\ \A r \in AiJobs : Live(r) /\ aiJobs[r].at = "asked" => ~board.over
    /\ \A r \in AiJobs : aiJobs[r].at = "searching" => ~aiJobs[r].over
    /\ ~resumed /\ play.turn = "AI" => \E r \in AiJobs : Live(r)
    /\ play.thinking => \E r \in AiJobs : Live(r) \/ (aiJobs[r].at = "replied" /\ aiJobs[r].of = play.id)
Orderly == OneMove /\ DialogOnTurn /\ OneReply

ScreenInv == ScreenTypes /\ StaleDiscarded /\ (~hasty => Orderly)

\* The records a game starts from, and the snapshot of a board.
LEMMA ScreenRecords ==
    /\ NewBoard \in Boards /\ NewBoard.plies = <<>> /\ NewBoard.undoable = 0
    /\ ~NewBoard.over /\ ~NewBoard.ended /\ ~NewBoard.choosing
    /\ NewPlay \in Plays /\ NewPlay.turn = "HUMAN" /\ ~NewPlay.thinking /\ NewPlay.id = 0
    /\ NewPlay.history = <<>> /\ NewPlay.hint = {}
    /\ NoTap \in TapRecords /\ NoTap.at = "idle" /\ NoTap.of = 0
    /\ NoJob \in JobRecords /\ NoJob.at = "idle" /\ NoJob.of = 0
    /\ NoSnapshot \in Snapshots /\ Cleared \in Snapshots
<1>1. <<>> \in Seq(Sides) /\ <<>> \in Seq(Plies)
  BY EmptySeq
<1>2. NewBoard \in Boards /\ NewBoard.plies = <<>> /\ NewBoard.undoable = 0
      /\ ~NewBoard.over /\ ~NewBoard.ended /\ ~NewBoard.choosing
  BY <1>1 DEF NewBoard, Boards
<1>3. NewPlay \in Plays /\ NewPlay.turn = "HUMAN" /\ ~NewPlay.thinking /\ NewPlay.id = 0
      /\ NewPlay.history = <<>> /\ NewPlay.hint = {}
  BY <1>1 DEF NewPlay, Plays
<1>4. NoTap \in TapRecords /\ NoTap.at = "idle" /\ NoTap.of = 0
  BY DEF NoTap, TapRecords, Sides
<1>5. NoJob \in JobRecords /\ NoJob.at = "idle" /\ NoJob.of = 0
  BY <1>1 DEF NoJob, JobRecords
<1>6. NoSnapshot \in Snapshots
  BY <1>1 DEF NoSnapshot, Snapshots
<1>7. Cleared \in Snapshots
  BY <1>6 DEF Cleared, Snapshots
<1> QED BY <1>2, <1>3, <1>4, <1>5, <1>6, <1>7

LEMMA SidesAreSides ==
    ASSUME NEW h \in Seq(Plies)
    PROVE  SidesOf(h) \in Seq(Sides)
<1>1. Len(h) \in Nat /\ DOMAIN h = 1..Len(h) /\ \A i \in 1..Len(h) : h[i] \in Plies
  BY LenProperties, ElementOfSeq
<1>2. \A i \in 1..Len(h) : h[i].side \in Sides
  BY <1>1 DEF Plies
<1>3. SidesOf(h) = [i \in 1..Len(h) |-> h[i].side]
  BY <1>1 DEF SidesOf
<1> QED BY <1>1, <1>2, <1>3, SeqDef

LEMMA SnapshotRecords ==
    ASSUME play \in Plays, NEW b \in Boards
    PROVE  Snapshot(b) \in Snapshots
<1>1. SidesOf(play.history) \in Seq(Sides) /\ b.plies \in Seq(Sides) /\ b.white \in BOOLEAN
  BY SidesAreSides DEF Plays, Boards
<1> QED BY <1>1 DEF Snapshot, Snapshots

\* What the changes of the board leave alone.
LEMMA PlacedBoard ==
    ASSUME board \in Boards, NEW side \in Sides
    PROVE  /\ Placed(side) \in Boards /\ Len(Placed(side).plies) = Len(board.plies) + 1
           /\ Placed(side).undoable = board.undoable + 1
           /\ Placed(side).over = board.over /\ Placed(side).ended = board.ended
           /\ Placed(side).choosing = board.choosing
<1>1. board.plies \in Seq(Sides) /\ board.undoable \in Nat
  BY DEF Boards
<1>2. Append(board.plies, side) \in Seq(Sides)
      /\ Len(Append(board.plies, side)) = Len(board.plies) + 1
  BY <1>1, AppendProperties
<1>3. board.undoable + 1 \in Nat
  BY <1>1
<1> QED BY <1>2, <1>3 DEF Placed, Boards

LEMMA PassedBoard ==
    ASSUME NEW b \in Boards, NEW ends \in BOOLEAN
    PROVE  /\ Passed(b, ends) \in Boards
           /\ Passed(b, ends).plies = b.plies /\ Passed(b, ends).undoable = b.undoable
           /\ Passed(b, ends).over = (b.over \/ ends) /\ Passed(b, ends).ended = (b.ended \/ ends)
           /\ Passed(b, ends).choosing = b.choosing
BY DEF Passed, Boards

LEMMA UndoneBoard ==
    ASSUME NEW b \in Boards, b.undoable <= Len(b.plies), b.over => Len(b.plies) > 0
    PROVE  /\ UndoneOnce(b) \in Boards
           /\ UndoneOnce(b).undoable <= Len(UndoneOnce(b).plies)
           /\ UndoneOnce(b).over => Len(UndoneOnce(b).plies) > 0
           /\ UndoneOnce(b).ended = b.ended /\ UndoneOnce(b).choosing = b.choosing
<1>1. CASE b.undoable = 0
  BY <1>1 DEF UndoneOnce
<1>2. CASE b.undoable # 0
  <2>1. b.plies \in Seq(Sides) /\ b.undoable \in Nat /\ Len(b.plies) \in Nat
    BY LenProperties DEF Boards
  <2> DEFINE s == SubSeq(b.plies, 1, Len(b.plies) - 1)
  <2>2. \A i \in 1..Len(b.plies) - 1 : b.plies[i] \in Sides
    BY <2>1, ElementOfSeq
  <2>3. s \in Seq(Sides) /\ Len(s) = Len(b.plies) - 1
    <3>1. Len(b.plies) - 1 \in Nat
      BY <1>2, <2>1
    <3> QED BY <2>2, <3>1, SubSeqProperties
  <2>4. b.undoable - 1 \in Nat /\ b.undoable - 1 <= Len(s)
    BY <1>2, <2>1, <2>3
  <2>5. UndoneOnce(b) = [b EXCEPT !.plies = s, !.undoable = b.undoable - 1,
                                  !.white = (b.plies[Len(b.plies)] = "white"), !.over = FALSE]
    BY <1>2 DEF UndoneOnce
  <2>6. PICK white \in BOOLEAN : white = (b.plies[Len(b.plies)] = "white")
    OBVIOUS
  <2>7. UndoneOnce(b) = [b EXCEPT !.plies = s, !.undoable = b.undoable - 1, !.white = white, !.over = FALSE]
    BY <2>5, <2>6
  <2> HIDE DEF s
  <2> QED BY <2>3, <2>4, <2>7 DEF Boards
<1> QED BY <1>1, <1>2

LEMMA UndoneBothBoard ==
    ASSUME ScreenTypes
    PROVE  /\ UndoneBoth \in Boards
           /\ UndoneBoth.undoable <= Len(UndoneBoth.plies)
           /\ UndoneBoth.over => Len(UndoneBoth.plies) > 0
           /\ UndoneBoth.ended = board.ended /\ UndoneBoth.choosing = board.choosing
<1>1. board \in Boards /\ board.undoable <= Len(board.plies) /\ (board.over => Len(board.plies) > 0)
  BY DEF ScreenTypes
<1> DEFINE once == UndoneOnce(board)
<1>2. /\ once \in Boards /\ once.undoable <= Len(once.plies)
      /\ once.over => Len(once.plies) > 0
      /\ once.ended = board.ended /\ once.choosing = board.choosing
  BY <1>1, UndoneBoard
<1>3. UndoneBoth = IF board.undoable > 0 /\ ~once.white THEN UndoneOnce(once) ELSE once
  BY DEF UndoneBoth
<1> HIDE DEF once
<1>4. /\ UndoneOnce(once) \in Boards /\ UndoneOnce(once).undoable <= Len(UndoneOnce(once).plies)
      /\ UndoneOnce(once).over => Len(UndoneOnce(once).plies) > 0
      /\ UndoneOnce(once).ended = once.ended /\ UndoneOnce(once).choosing = once.choosing
  BY <1>2, UndoneBoard
<1> QED BY <1>2, <1>3, <1>4

\* A move more in the history.
LEMMA HistoryGrows ==
    ASSUME play \in Plays, StaleDiscarded, NEW ply \in Plies, ply.of = play.id,
           NEW p, p = [play EXCEPT !.history = Append(@, ply)]
    PROVE  /\ p \in Plays /\ p.turn = play.turn /\ p.thinking = play.thinking
           /\ p.id = play.id /\ p.hint = play.hint
           /\ \A i \in DOMAIN p.history : p.history[i].of = p.id
<1>1. play.history \in Seq(Plies) /\ Len(play.history) \in Nat
      /\ DOMAIN play.history = 1..Len(play.history)
  BY LenProperties DEF Plays
<1> DEFINE h == Append(play.history, ply)
<1>2. /\ h \in Seq(Plies) /\ Len(h) = Len(play.history) + 1
      /\ \A i \in 1..Len(play.history) : h[i] = play.history[i]
      /\ h[Len(play.history) + 1] = ply
  BY <1>1, AppendProperties
<1>3. DOMAIN h = 1..Len(h)
  BY <1>2, LenProperties
<1> HIDE DEF h
<1>4. p = [play EXCEPT !.history = h]
  BY DEF h
<1>5. p \in Plays /\ p.turn = play.turn /\ p.thinking = play.thinking
           /\ p.id = play.id /\ p.hint = play.hint /\ p.history = h
  BY <1>2, <1>4 DEF Plays
<1>6. ASSUME NEW i \in DOMAIN h PROVE h[i].of = play.id
  <2>1. i \in 1..Len(play.history) \/ i = Len(play.history) + 1
    BY <1>1, <1>2, <1>3
  <2>2. CASE i \in 1..Len(play.history)
    <3>1. play.history[i].of = play.id
      BY <1>1, <2>2 DEF StaleDiscarded
    <3> QED BY <1>2, <2>2, <3>1
  <2> QED BY <1>2, <2>1, <2>2
<1> QED BY <1>5, <1>6

LEMMA ScreenStarts == ScreenInit => ScreenInv
<1> SUFFICES ASSUME ScreenInit PROVE ScreenInv
  OBVIOUS
<1>1. /\ board = NewBoard /\ play = NewPlay /\ saved = NoSnapshot
      /\ taps \in [Taps -> TapRecords] /\ aiJobs \in [AiJobs -> JobRecords]
      /\ \A t \in Taps : taps[t].at = "idle" /\ taps[t].of = 0
      /\ \A r \in AiJobs : aiJobs[r].at = "idle" /\ aiJobs[r].of = 0
      /\ resumed = FALSE /\ hasty \in BOOLEAN
  BY ScreenRecords DEF ScreenInit
<1>2. 0 <= MaxResets[hasty] /\ 0 <= 0
  BY <1>1, PlayScreenAssumption
<1>3. board.undoable = 0 /\ Len(board.plies) = 0 /\ ~board.over /\ ~board.choosing /\ play.id = 0
  BY <1>1, ScreenRecords
<1>4. ScreenTypes
  <2>1. board \in Boards /\ play \in Plays /\ saved \in Snapshots
    BY <1>1, ScreenRecords
  <2> QED BY <1>1, <1>2, <1>3, <2>1 DEF ScreenTypes
<1>5. StaleDiscarded
  BY <1>1, ScreenRecords DEF StaleDiscarded
<1>6. Orderly
  BY <1>1, ScreenRecords DEF Orderly, OneMove, DialogOnTurn, OneReply, InHand, Made, Moving, Live
<1> QED BY <1>4, <1>5, <1>6 DEF ScreenInv

-----------------------------------------------------------------------------
(* The player's moves on the screen *)

LEMMA SelectPieceOK == ScreenInv /\ SelectPiece => ScreenInv'
<1> SUFFICES ASSUME ScreenInv, SelectPiece PROVE ScreenInv'
  OBVIOUS
<1>1. /\ board' = [board EXCEPT !.selected = SideToMove] /\ board \in Boards
      /\ UNCHANGED <<play, taps, aiJobs, saved, resumed, hasty>>
  BY DEF SelectPiece, ScreenInv, ScreenTypes
<1>2. SideToMove \in Sides
  BY DEF SideToMove, Sides
<1>3. /\ board' \in Boards /\ board'.plies = board.plies /\ board'.undoable = board.undoable
      /\ board'.over = board.over /\ board'.ended = board.ended /\ board'.choosing = board.choosing
  BY <1>1, <1>2 DEF Boards
<1>4. ScreenTypes' /\ StaleDiscarded'
  BY <1>1, <1>3 DEF ScreenInv, ScreenTypes, StaleDiscarded
<1>5. Orderly => Orderly'
  BY <1>1, <1>3 DEF Orderly, OneMove, DialogOnTurn, OneReply, InHand, Made, Moving, Live, NoneReplied
<1> QED BY <1>1, <1>4, <1>5 DEF ScreenInv

LEMMA TapTargetOK == ScreenInv /\ TapTarget => ScreenInv'
<1> SUFFICES ASSUME ScreenInv, TapTarget PROVE ScreenInv'
  OBVIOUS
<1>1. /\ board' = [board EXCEPT !.selected = "none"] /\ board \in Boards /\ play \in Plays
      /\ UNCHANGED <<play, aiJobs, saved, resumed, hasty>>
      /\ board.selected \in Sides /\ taps \in [Taps -> TapRecords]
  BY DEF TapTarget, ScreenInv, ScreenTypes, Boards
<1>2. /\ board' \in Boards /\ board'.plies = board.plies /\ board'.undoable = board.undoable
      /\ board'.over = board.over /\ board'.ended = board.ended /\ board'.choosing = board.choosing
  BY <1>1 DEF Boards
<1>3. CASE UNCHANGED taps
  <2>1. ScreenTypes' /\ StaleDiscarded'
    BY <1>1, <1>2, <1>3 DEF ScreenInv, ScreenTypes, StaleDiscarded
  <2>2. Orderly => Orderly'
    BY <1>1, <1>2, <1>3 DEF Orderly, OneMove, DialogOnTurn, OneReply, InHand, Made, Moving, Live, NoneReplied
  <2> QED BY <1>1, <2>1, <2>2 DEF ScreenInv
<1>4. CASE play.turn = "HUMAN"
  <2>1. PICK t \in Taps :
           taps' = [taps EXCEPT ![t] = [NoTap EXCEPT !.at = "launched", !.of = play.id,
                                                    !.side = board.selected]]
    BY <1>4 DEF TapTarget
  <2> DEFINE tap == [NoTap EXCEPT !.at = "launched", !.of = play.id, !.side = board.selected]
  <2>2. tap \in TapRecords /\ tap.at = "launched" /\ tap.of = play.id
    BY <1>1, ScreenRecords DEF TapRecords, Plays
  <2> HIDE DEF tap
  <2>3. taps' \in [Taps -> TapRecords] /\ taps'[t] = tap
        /\ \A u \in Taps \ {t} : taps'[u] = taps[u]
    BY <1>1, <2>1, <2>2 DEF tap
  <2>4. play.id <= play.id
    BY <1>1 DEF Plays
  <2>5. ScreenTypes' /\ StaleDiscarded'
    BY <1>1, <1>2, <2>2, <2>3, <2>4 DEF ScreenInv, ScreenTypes, StaleDiscarded
  <2>6. ~hasty => Orderly'
    <3> SUFFICES ASSUME ~hasty PROVE Orderly'
      OBVIOUS
    <3>1. Orderly
      BY DEF ScreenInv
    <3>2. (\A u \in Taps : ~InHand(u)) /\ NoneReplied /\ ~board.choosing
      BY DEF TapTarget, PlayerMayAct, Settled, InHand, NoneReplied
    <3>3. ~board.ended
      BY <3>1, <3>2 DEF Orderly, OneMove, Made, InHand
    <3>4. \A u \in Taps \ {t} : taps'[u].at \notin {"launched", "applied"}
      BY <2>3, <3>2 DEF InHand
    <3>5. OneMove'
      BY <1>1, <1>2, <1>4, <2>2, <2>3, <3>2, <3>3, <3>4 DEF OneMove, InHand, Made, Moving, NoneReplied
    <3>6. DialogOnTurn' /\ OneReply'
      BY <1>1, <1>2, <3>1 DEF Orderly, DialogOnTurn, OneReply, Live, NoneReplied
    <3> QED BY <3>5, <3>6 DEF Orderly
  <2> QED BY <1>1, <2>5, <2>6 DEF ScreenInv
<1> QED BY <1>3, <1>4 DEF TapTarget

\* What the board becomes: a move that fails leaves it, one that succeeds passes
\* the turn, a promotion waits for the dialog.
LEMMA AppliedBoard ==
    ASSUME ScreenTypes, NEW t \in Taps, NEW result \in MoveKinds \union {"FAILED"}, NEW ends \in BOOLEAN
    PROVE  /\ Applied(t, result, ends) \in Boards
           /\ Applied(t, result, ends).undoable <= Len(Applied(t, result, ends).plies)
           /\ Applied(t, result, ends).over \/ Applied(t, result, ends).choosing =>
                  Len(Applied(t, result, ends).plies) > 0
           /\ result = "FAILED" => Applied(t, result, ends) = board
           /\ result = "SUCCESS" =>
                 /\ Applied(t, result, ends).over = (board.over \/ ends)
                 /\ Applied(t, result, ends).ended = (board.ended \/ ends)
                 /\ Applied(t, result, ends).choosing = board.choosing
           /\ result = "PROMOTION" =>
                 /\ Applied(t, result, ends).over = board.over
                 /\ Applied(t, result, ends).ended = board.ended
<1> DEFINE placed == Placed(taps[t].side)
<1>1. /\ board \in Boards /\ board.undoable <= Len(board.plies)
      /\ (board.over \/ board.choosing => Len(board.plies) > 0)
      /\ taps[t].side \in Sides /\ result \in {"FAILED", "SUCCESS", "PROMOTION"}
  BY PlayScreenAssumption DEF ScreenTypes, TapRecords
<1>2. Len(board.plies) \in Nat /\ board.undoable \in Nat
  BY <1>1, LenProperties DEF Boards
<1>3. /\ placed \in Boards /\ Len(placed.plies) = Len(board.plies) + 1
      /\ placed.undoable = board.undoable + 1
      /\ placed.over = board.over /\ placed.ended = board.ended
      /\ placed.choosing = board.choosing
  BY <1>1, PlacedBoard
<1>4. Len(placed.plies) > 0 /\ placed.undoable <= Len(placed.plies)
  BY <1>1, <1>2, <1>3
<1>5. Applied(t, result, ends) = IF result = "FAILED" THEN board
                                 ELSE IF result = "SUCCESS" THEN Passed(placed, ends)
                                 ELSE [placed EXCEPT !.choosing = TRUE]
  BY DEF Applied
<1> HIDE DEF placed
<1>6. CASE result = "FAILED"
  BY <1>1, <1>5, <1>6
<1>7. CASE result = "SUCCESS"
  BY <1>3, <1>4, <1>5, <1>7, PassedBoard
<1>8. CASE result = "PROMOTION"
  <2>1. Applied(t, result, ends) = [placed EXCEPT !.choosing = TRUE]
    BY <1>5, <1>8
  <2> QED BY <1>3, <1>4, <1>8, <2>1 DEF Boards
<1> QED BY <1>1, <1>6, <1>7, <1>8

LEMMA ApplyHumanMoveOK ==
    ASSUME ScreenInv, NEW t \in Taps, ApplyHumanMove(t)
    PROVE  ScreenInv'
<1>1. PICK result \in MoveKinds \union {"FAILED"}, ends \in BOOLEAN :
          /\ result # "FAILED" => ~board.over
          /\ result # "SUCCESS" => ~ends
          /\ board' = Applied(t, result, ends)
          /\ saved' = Snapshot(board')
          /\ taps' = [taps EXCEPT ![t].at = "applied", ![t].result = result]
  BY DEF ApplyHumanMove
<1>2. taps[t].at = "launched" /\ UNCHANGED <<play, aiJobs, resumed, hasty>>
  BY DEF ApplyHumanMove
<1>3. ScreenTypes /\ play \in Plays /\ taps \in [Taps -> TapRecords]
      /\ result \in {"FAILED", "SUCCESS", "PROMOTION"}
  BY PlayScreenAssumption DEF ScreenInv, ScreenTypes
<1>4. /\ board' \in Boards /\ board'.undoable <= Len(board'.plies)
      /\ board'.over \/ board'.choosing => Len(board'.plies) > 0
      /\ result = "FAILED" => board' = board
      /\ result = "SUCCESS" =>
            /\ board'.over = (board.over \/ ends) /\ board'.ended = (board.ended \/ ends)
            /\ board'.choosing = board.choosing
      /\ result = "PROMOTION" => board'.over = board.over /\ board'.ended = board.ended
  BY <1>1, <1>3, AppliedBoard
<1>5. saved' \in Snapshots
  <2>1. \A b \in Boards : Snapshot(b) \in Snapshots
    BY <1>3, SnapshotRecords
  <2> QED BY <1>1, <1>4, <2>1
<1>6. /\ taps' \in [Taps -> TapRecords] /\ taps'[t].at = "applied" /\ taps'[t].result = result
      /\ taps'[t].of = taps[t].of /\ \A u \in Taps \ {t} : taps'[u] = taps[u]
  <2> DEFINE tap == [taps[t] EXCEPT !.at = "applied", !.result = result]
  <2>1. tap \in TapRecords /\ tap.at = "applied" /\ tap.result = result /\ tap.of = taps[t].of
    BY <1>3 DEF TapRecords
  <2>2. taps' = [taps EXCEPT ![t] = tap]
    BY <1>1, <1>3
  <2> HIDE DEF tap
  <2> QED BY <1>3, <2>1, <2>2
<1>7. ScreenTypes' /\ StaleDiscarded'
  BY <1>2, <1>4, <1>5, <1>6 DEF ScreenInv, ScreenTypes, StaleDiscarded
<1>8. ~hasty => Orderly'
  <2> SUFFICES ASSUME ~hasty PROVE Orderly'
    OBVIOUS
  <2>1. Orderly
    BY DEF ScreenInv
  <2>2. \A u \in Taps \ {t} : ~InHand(u) /\ ~Made(u)
    BY <1>2, <2>1 DEF Orderly, OneMove, InHand, Made
  <2>3. play.turn = "HUMAN" /\ NoneReplied /\ ~board.choosing /\ taps[t].of = play.id
    BY <1>2, <2>1 DEF Orderly, OneMove, Moving, InHand
  <2>4. ~board.ended
    BY <1>2, <2>1, <2>2 DEF Orderly, OneMove, Made
  <2>5. \A u \in Taps \ {t} : ~InHand(u)' /\ ~Made(u)'
    BY <1>6, <2>2 DEF InHand, Made
  <2>6. result # "PROMOTION" => ~board'.choosing
    BY <1>3, <1>4, <2>3
  <2>7. result # "SUCCESS" => ~board'.ended
    BY <1>3, <1>4, <2>4
  <2>8. result = "SUCCESS" /\ board'.over => board'.ended
    BY <1>1, <1>4
  <2>9. NoneReplied' /\ play' = play
    BY <1>2, <2>3 DEF NoneReplied
  <2>10. OneMove'
    <3>1. \A u \in Taps : Moving(u)' => u = t /\ result = "SUCCESS"
      BY <1>6, <2>5 DEF Moving, InHand, Made
    <3>2. \A u \in Taps : Made(u)' => u = t /\ result = "SUCCESS"
      BY <1>6, <2>5 DEF Made
    <3>3. result = "SUCCESS" => Made(t)'
      BY <1>6 DEF Made
    <3>4. \A u \in Taps : InHand(u)' => u = t
      BY <2>5
    <3> QED BY <1>6, <2>3, <2>6, <2>7, <2>8, <2>9, <3>1, <3>2, <3>3, <3>4 DEF OneMove
  <2>11. DialogOnTurn'
    BY <1>1, <1>3, <1>4, <2>3, <2>6, <2>9 DEF DialogOnTurn
  <2>12. OneReply'
    BY <1>2, <2>1, <2>3 DEF Orderly, OneReply, Live
  <2> QED BY <2>10, <2>11, <2>12 DEF Orderly
<1> QED BY <1>2, <1>7, <1>8 DEF ScreenInv

\* A request to the engine: no one is asked while the flag is up.
LEMMA Asked ==
    ASSUME ScreenTypes, NEW p \in Plays, p.id = play.id, NEW saves \in BOOLEAN, Ask(p, saves)
    PROVE  /\ play' \in Plays /\ play'.turn = p.turn /\ play'.id = play.id
           /\ play'.history = p.history /\ play'.hint = p.hint
           /\ aiJobs' \in [AiJobs -> JobRecords] /\ \A r \in AiJobs : aiJobs'[r].of <= play.id
           /\ ~p.thinking => \E r \in AiJobs :
                 /\ aiJobs[r].at = "idle" /\ aiJobs'[r].at = "asked" /\ aiJobs'[r].of = play.id
                 /\ \A s \in AiJobs \ {r} : aiJobs'[s] = aiJobs[s]
<1>1. aiJobs \in [AiJobs -> JobRecords] /\ (\A r \in AiJobs : aiJobs[r].of <= play.id)
      /\ play.id \in Nat
  BY DEF ScreenTypes, Plays
<1>2. CASE p.thinking
  BY <1>1, <1>2 DEF Ask
<1>3. CASE ~p.thinking
  <2>1. play' = [p EXCEPT !.thinking = TRUE]
    BY <1>3 DEF Ask
  <2>2. PICK r \in AiJobs : aiJobs[r] = NoJob
              /\ aiJobs' = [aiJobs EXCEPT ![r] = [NoJob EXCEPT !.at = "asked", !.of = p.id,
                                                                  !.saves = saves]]
    BY <1>3 DEF Ask
  <2> DEFINE asked == [NoJob EXCEPT !.at = "asked", !.of = p.id, !.saves = saves]
  <2>3. asked \in JobRecords /\ asked.at = "asked" /\ asked.of = play.id
    BY <1>1, ScreenRecords DEF JobRecords
  <2>4. aiJobs' = [aiJobs EXCEPT ![r] = asked]
    BY <2>2
  <2> HIDE DEF asked
  <2>5. aiJobs' \in [AiJobs -> JobRecords] /\ aiJobs'[r] = asked
        /\ \A s \in AiJobs \ {r} : aiJobs'[s] = aiJobs[s]
    BY <1>1, <2>3, <2>4
  <2>6. play' \in Plays /\ play'.turn = p.turn /\ play'.id = play.id
        /\ play'.history = p.history /\ play'.hint = p.hint
    BY <2>1 DEF Plays
  <2>7. \A s \in AiJobs : aiJobs'[s].of <= play.id
    BY <1>1, <2>3, <2>5
  <2>8. aiJobs[r].at = "idle"
    BY <2>2, ScreenRecords
  <2> QED BY <2>3, <2>5, <2>6, <2>7, <2>8
<1> QED BY <1>2, <1>3

\* On the player's turn, with no reply being finished, the flag is down.
LEMMA AskedInTurn ==
    ASSUME ScreenTypes, OneReply, NoneReplied, play.turn = "HUMAN",
           NEW p \in Plays, p.id = play.id, p.thinking = play.thinking, p.turn = "AI",
           NEW saves \in BOOLEAN, Ask(p, saves), ~board'.over
    PROVE  OneReply' /\ NoneReplied'
<1>1. ~p.thinking
  BY DEF OneReply, NoneReplied, Live
<1>2. PICK r \in AiJobs :
                 /\ aiJobs[r].at = "idle" /\ aiJobs'[r].at = "asked" /\ aiJobs'[r].of = play.id
                 /\ \A s \in AiJobs \ {r} : aiJobs'[s] = aiJobs[s]
  BY <1>1, Asked
<1>3. play'.id = play.id /\ play'.turn = "AI"
  BY Asked
<1>4. NoneReplied'
  BY <1>2 DEF NoneReplied
<1>5. \A s \in AiJobs \ {r} : ~Live(s)'
  BY <1>2, <1>3 DEF OneReply, Live
<1>6. Live(r)'
  BY <1>2, <1>3 DEF Live
<1>7. \A s \in AiJobs : aiJobs'[s].at = "searching" => ~aiJobs'[s].over
  BY <1>2 DEF OneReply
<1> QED BY <1>3, <1>4, <1>5, <1>6, <1>7 DEF OneReply

\* A coroutine of the player that is through leaves others alone.
LEMMA TapLeaves ==
    ASSUME ScreenTypes, NEW t \in Taps, NEW tap, taps' = [taps EXCEPT ![t] = tap],
           tap = NoTap \/ tap = [NoTap EXCEPT !.at = "coaching", !.of = play.id]
    PROVE  /\ taps' \in [Taps -> TapRecords] /\ ~InHand(t)' /\ ~Made(t)'
           /\ \A u \in Taps : taps'[u].of <= play.id
           /\ \A u \in Taps \ {t} : taps'[u] = taps[u]
<1>1. play.id \in Nat /\ taps \in [Taps -> TapRecords] /\ \A u \in Taps : taps[u].of <= play.id
  BY DEF ScreenTypes, Plays
<1>2. tap \in TapRecords /\ tap.at \in {"idle", "coaching"} /\ tap.of <= play.id
  <2>1. CASE tap = NoTap
    BY <1>1, <2>1, ScreenRecords
  <2>2. CASE tap = [NoTap EXCEPT !.at = "coaching", !.of = play.id]
    <3>1. tap \in TapRecords /\ tap.at = "coaching" /\ tap.of = play.id
      BY <1>1, <2>2, ScreenRecords DEF TapRecords
    <3> QED BY <1>1, <3>1
  <2> QED BY <2>1, <2>2
<1>3. taps'[t] = tap /\ \A u \in Taps \ {t} : taps'[u] = taps[u]
  BY <1>1
<1>4. taps' \in [Taps -> TapRecords]
  BY <1>1, <1>2
<1>5. ~InHand(t)' /\ ~Made(t)'
  BY <1>2, <1>3 DEF InHand, Made
<1>6. \A u \in Taps : taps'[u].of <= play.id
  BY <1>1, <1>2, <1>3
<1> QED BY <1>3, <1>4, <1>5, <1>6

LEMMA RecordHumanMoveOK ==
    ASSUME ScreenInv, NEW t \in Taps, RecordHumanMove(t)
    PROVE  ScreenInv'
<1>1. taps[t].at = "applied" /\ UNCHANGED <<resumed, hasty>>
  BY DEF RecordHumanMove
<1>2. ScreenTypes /\ StaleDiscarded /\ board \in Boards /\ play \in Plays
      /\ saved \in Snapshots /\ taps \in [Taps -> TapRecords]
  BY DEF ScreenInv, ScreenTypes
<1>3. PICK tap : /\ tap = NoTap \/ tap = [NoTap EXCEPT !.at = "coaching", !.of = play.id]
                 /\ taps' = [taps EXCEPT ![t] = tap]
  BY DEF RecordHumanMove
<1>4. /\ taps' \in [Taps -> TapRecords] /\ ~InHand(t)' /\ ~Made(t)'
      /\ \A u \in Taps : taps'[u].of <= play.id
      /\ \A u \in Taps \ {t} : taps'[u] = taps[u]
  BY <1>2, <1>3, TapLeaves
<1>5. ASSUME ~hasty
      PROVE  /\ Orderly /\ OneMove /\ OneReply /\ taps[t].of = play.id
             /\ \A u \in Taps : ~InHand(u)' /\ ~Moving(u)' /\ ~Made(u)'
             /\ \A u \in Taps : Made(u) => u = t
  <2>1. Orderly /\ OneMove /\ OneReply
    BY <1>5 DEF ScreenInv, Orderly
  <2>2. \A u \in Taps \ {t} : ~InHand(u)
    BY <1>1, <2>1 DEF OneMove, InHand
  <2>3. \A u \in Taps : ~InHand(u)'
    BY <1>4, <2>2 DEF InHand
  <2> QED BY <1>1, <2>1, <2>2, <2>3 DEF OneMove, InHand, Moving, Made
<1>6. CASE ~Recordable(t)
  <2>1. UNCHANGED <<board, play, aiJobs, saved>>
    BY <1>6 DEF RecordHumanMove
  <2>2. ScreenTypes' /\ StaleDiscarded'
    BY <1>1, <1>2, <1>4, <2>1 DEF ScreenTypes, StaleDiscarded
  <2>3. ASSUME ~hasty PROVE Orderly'
    <3>1. ~board.ended
      <4>1. \A u \in Taps : ~Made(u)
        BY <1>5, <1>6, <2>3 DEF Recordable, Made
      <4> QED BY <1>5, <2>3, <4>1 DEF OneMove
    <3>2. OneMove'
      BY <1>5, <2>1, <2>3, <3>1 DEF OneMove
    <3>3. DialogOnTurn' /\ OneReply'
      BY <1>1, <1>5, <2>1, <2>3 DEF Orderly, DialogOnTurn, OneReply, Live, NoneReplied
    <3> QED BY <3>2, <3>3 DEF Orderly
  <2> QED BY <1>1, <2>2, <2>3 DEF ScreenInv
<1>7. CASE Recordable(t)
  <2> DEFINE ply == [side |-> taps[t].side, of |-> taps[t].of]
             recorded == [play EXCEPT !.history = Append(@, ply)]
  <2>1. ply \in Plies /\ ply.of = play.id
    BY <1>2, <1>7 DEF Recordable, Plies, TapRecords
  <2>2. /\ recorded \in Plays /\ recorded.turn = play.turn /\ recorded.thinking = play.thinking
        /\ recorded.id = play.id /\ recorded.hint = play.hint
        /\ \A i \in DOMAIN recorded.history : recorded.history[i].of = recorded.id
    <3> HIDE DEF ply
    <3> QED BY <1>2, <2>1, HistoryGrows
  <2>3. IF board.ended
        THEN /\ play' = recorded /\ board' = [board EXCEPT !.ended = FALSE] /\ saved' = Cleared
             /\ UNCHANGED aiJobs
        ELSE Ask([recorded EXCEPT !.turn = "AI"], TRUE) /\ UNCHANGED <<board, saved>>
    BY <1>7 DEF RecordHumanMove
  <2> HIDE DEF recorded
  <2>4. ASSUME ~hasty PROVE Made(t) /\ play.turn = "HUMAN" /\ NoneReplied /\ ~board.choosing
    BY <1>1, <1>5, <1>7, <2>4 DEF Recordable, Made, Moving, OneMove
  <2>5. CASE board.ended
    <3>1. /\ board' \in Boards /\ board'.plies = board.plies /\ board'.undoable = board.undoable
          /\ board'.over = board.over /\ ~board'.ended /\ board'.choosing = board.choosing
      BY <1>2, <2>3, <2>5 DEF Boards
    <3>2. play' = recorded /\ saved' \in Snapshots /\ UNCHANGED aiJobs
      BY <2>3, <2>5, ScreenRecords
    <3>3. ScreenTypes' /\ StaleDiscarded'
      BY <1>1, <1>2, <1>4, <2>2, <3>1, <3>2 DEF ScreenTypes, StaleDiscarded
    <3>4. ASSUME ~hasty PROVE Orderly'
      <4>1. OneMove'
        BY <1>5, <3>1, <3>4 DEF OneMove
      <4>2. DialogOnTurn'
        BY <2>4, <3>1, <3>4 DEF DialogOnTurn
      <4>3. OneReply'
        BY <1>1, <1>5, <2>2, <3>1, <3>2, <3>4 DEF OneReply, Live
      <4> QED BY <4>1, <4>2, <4>3 DEF Orderly
    <3> QED BY <1>1, <3>3, <3>4 DEF ScreenInv
  <2>6. CASE ~board.ended
    <3> DEFINE p == [recorded EXCEPT !.turn = "AI"]
    <3>1. /\ p \in Plays /\ p.turn = "AI" /\ p.thinking = play.thinking /\ p.id = play.id
          /\ p.hint = play.hint /\ p.history = recorded.history
      BY <2>2 DEF Plays
    <3>2. Ask(p, TRUE) /\ UNCHANGED <<board, saved>>
      BY <2>3, <2>6
    <3> HIDE DEF p
    <3>3. /\ play' \in Plays /\ play'.turn = p.turn /\ play'.id = play.id
          /\ play'.history = p.history /\ play'.hint = p.hint
          /\ aiJobs' \in [AiJobs -> JobRecords] /\ \A r \in AiJobs : aiJobs'[r].of <= play.id
      BY <1>2, <3>1, <3>2, Asked
    <3>4. ScreenTypes'
      BY <1>1, <1>2, <1>4, <3>2, <3>3 DEF ScreenTypes
    <3>5. StaleDiscarded'
      BY <1>2, <2>2, <3>1, <3>3 DEF StaleDiscarded
    <3>6. ASSUME ~hasty PROVE Orderly'
      <4>1. ~board.over
        BY <1>5, <2>4, <2>6, <3>6 DEF OneMove
      <4>2. OneReply'
        BY <1>2, <1>5, <2>4, <3>1, <3>2, <3>6, <4>1, AskedInTurn
      <4>3. OneMove'
        BY <1>5, <2>6, <3>2, <3>6 DEF OneMove
      <4>4. DialogOnTurn'
        BY <2>4, <3>2, <3>6 DEF DialogOnTurn
      <4> QED BY <4>2, <4>3, <4>4 DEF Orderly
    <3> QED BY <1>1, <3>4, <3>5, <3>6 DEF ScreenInv
  <2> QED BY <2>5, <2>6
<1> QED BY <1>6, <1>7

LEMMA PickPromotionOK == ScreenInv /\ PickPromotion => ScreenInv'
<1> SUFFICES ASSUME ScreenInv, PickPromotion PROVE ScreenInv'
  OBVIOUS
<1>1. PICK ends \in BOOLEAN :
          LET promoted == Passed([board EXCEPT !.choosing = FALSE], ends)
          IN  IF play.turn = "HUMAN" THEN AfterPromotion(promoted)
              ELSE board' = promoted /\ UNCHANGED <<play, aiJobs, saved>>
  BY DEF PickPromotion
<1>2. ScreenTypes /\ StaleDiscarded /\ board \in Boards /\ play \in Plays /\ saved \in Snapshots
      /\ board.choosing /\ UNCHANGED <<taps, resumed, hasty>>
  BY DEF ScreenInv, ScreenTypes, PickPromotion
<1> DEFINE closed == [board EXCEPT !.choosing = FALSE]
           promoted == Passed(closed, ends)
<1>3. /\ closed \in Boards /\ closed.plies = board.plies /\ closed.undoable = board.undoable
      /\ closed.over = board.over /\ closed.ended = board.ended /\ closed.choosing = FALSE
  BY <1>2 DEF Boards
<1>4. IF play.turn = "HUMAN" THEN AfterPromotion(promoted)
      ELSE board' = promoted /\ UNCHANGED <<play, aiJobs, saved>>
  BY <1>1
<1> HIDE DEF closed
<1>5. /\ promoted \in Boards /\ promoted.plies = board.plies /\ promoted.undoable = board.undoable
      /\ promoted.over = (board.over \/ ends) /\ promoted.ended = (board.ended \/ ends)
      /\ ~promoted.choosing
  BY <1>3, PassedBoard
<1> HIDE DEF promoted
<1>6. /\ board' \in Boards /\ board'.plies = board.plies /\ board'.undoable = board.undoable
      /\ board'.over = promoted.over /\ ~board'.choosing
      /\ play.turn = "HUMAN" => ~board'.ended
  BY <1>4, <1>5 DEF AfterPromotion, Boards
<1>7. Len(board.plies) > 0
  BY <1>2 DEF ScreenTypes
<1>8. ASSUME ~hasty
      PROVE  Orderly /\ play.turn = "HUMAN" /\ NoneReplied /\ ~board.over /\ ~board.ended
             /\ \A t \in Taps : ~Moving(t) /\ ~Made(t)
  <2>1. Orderly
    BY <1>8 DEF ScreenInv
  <2>2. \A t \in Taps : ~Moving(t)
    BY <1>2, <2>1 DEF Orderly, OneMove
  <2> QED BY <1>2, <2>1, <2>2 DEF Orderly, OneMove, DialogOnTurn, Moving
<1>9. ASSUME ~hasty PROVE OneMove' /\ DialogOnTurn'
  <2>1. \A t \in Taps : ~Moving(t)' /\ ~Made(t)' /\ (InHand(t)' <=> InHand(t))
    BY <1>2, <1>8, <1>9 DEF Moving, Made, InHand
  <2>2. play'.id = play.id
    <3>1. [play EXCEPT !.turn = "AI"] \in Plays /\ [play EXCEPT !.turn = "AI"].id = play.id
      BY <1>2 DEF Plays
    <3>2. CASE play.turn = "HUMAN" /\ ~promoted.ended
      BY <1>2, <1>4, <3>1, <3>2, Asked DEF AfterPromotion
    <3> QED BY <1>4, <3>2 DEF AfterPromotion
  <2> QED BY <1>2, <1>6, <1>8, <1>9, <2>1, <2>2 DEF Orderly, OneMove, DialogOnTurn
<1>10. CASE play.turn = "HUMAN" /\ ~promoted.ended
  <2> DEFINE p == [play EXCEPT !.turn = "AI"]
  <2>1. /\ p \in Plays /\ p.turn = "AI" /\ p.thinking = play.thinking /\ p.id = play.id
        /\ p.hint = play.hint /\ p.history = play.history
    BY <1>2 DEF Plays
  <2>2. Ask(p, FALSE) /\ UNCHANGED saved
    BY <1>4, <1>10 DEF AfterPromotion
  <2> HIDE DEF p
  <2>3. /\ play' \in Plays /\ play'.turn = p.turn /\ play'.id = play.id
        /\ play'.history = p.history /\ play'.hint = p.hint
        /\ aiJobs' \in [AiJobs -> JobRecords] /\ \A r \in AiJobs : aiJobs'[r].of <= play.id
    BY <1>2, <2>1, <2>2, Asked
  <2>4. ScreenTypes' /\ StaleDiscarded'
    BY <1>2, <1>6, <1>7, <2>1, <2>2, <2>3 DEF ScreenTypes, StaleDiscarded
  <2>5. ASSUME ~hasty PROVE OneReply'
    <3>1. ~board'.over
      BY <1>5, <1>6, <1>8, <1>10, <2>5
    <3> QED BY <1>2, <1>8, <2>1, <2>2, <2>5, <3>1, AskedInTurn DEF Orderly
  <2> QED BY <1>2, <1>9, <2>4, <2>5 DEF ScreenInv, Orderly
<1>11. CASE ~(play.turn = "HUMAN" /\ ~promoted.ended)
  <2>1. play' = play /\ aiJobs' = aiJobs /\ saved' \in Snapshots
    BY <1>2, <1>4, <1>11, ScreenRecords DEF AfterPromotion
  <2>2. ScreenTypes' /\ StaleDiscarded'
    BY <1>2, <1>6, <1>7, <2>1 DEF ScreenTypes, StaleDiscarded
  <2>3. ASSUME ~hasty PROVE OneReply'
    BY <1>2, <1>8, <2>1, <2>3 DEF Orderly, OneReply, Live
  <2> QED BY <1>2, <1>9, <2>2, <2>3 DEF ScreenInv, Orderly
<1> QED BY <1>10, <1>11

LEMMA HintArrivesOK ==
    ASSUME ScreenInv, NEW t \in Taps, HintArrives(t)
    PROVE  ScreenInv'
<1>1. taps[t].at = "coaching" /\ UNCHANGED <<board, aiJobs, saved, resumed, hasty>>
      /\ taps' = [taps EXCEPT ![t] = NoTap]
  BY DEF HintArrives
<1>2. ScreenTypes /\ StaleDiscarded /\ play \in Plays
  BY DEF ScreenInv, ScreenTypes
<1>3. /\ taps' \in [Taps -> TapRecords] /\ ~InHand(t)' /\ ~Made(t)'
      /\ \A u \in Taps : taps'[u].of <= play.id
      /\ \A u \in Taps \ {t} : taps'[u] = taps[u]
  BY <1>1, <1>2, TapLeaves
<1>4. /\ play' \in Plays /\ play'.turn = play.turn /\ play'.thinking = play.thinking
      /\ play'.id = play.id /\ play'.history = play.history /\ play'.hint \subseteq {play.id}
  <2>1. CASE OfThisState(taps[t].of)
    <3>1. PICK given \in {{}, {taps[t].of}} : play' = [play EXCEPT !.hint = given]
      BY <2>1 DEF HintArrives
    <3>2. given \subseteq {play.id} /\ given \in SUBSET Nat
      BY <1>2, <2>1, <3>1 DEF OfThisState, Plays
    <3> QED BY <1>2, <3>1, <3>2 DEF Plays
  <2>2. CASE ~OfThisState(taps[t].of)
    BY <1>2, <2>2 DEF HintArrives, StaleDiscarded
  <2> QED BY <2>1, <2>2
<1>5. ScreenTypes' /\ StaleDiscarded'
  BY <1>1, <1>2, <1>3, <1>4 DEF ScreenTypes, StaleDiscarded
<1>6. ASSUME ~hasty PROVE Orderly'
  <2>1. Orderly /\ ~InHand(t) /\ ~Made(t)
    BY <1>1, <1>6 DEF ScreenInv, InHand, Made
  <2>2. \A u \in Taps : (InHand(u)' <=> InHand(u)) /\ (Made(u)' <=> Made(u)) /\ (Moving(u)' <=> Moving(u))
    BY <1>3, <2>1 DEF InHand, Made, Moving
  <2>3. OneMove'
    BY <1>1, <1>3, <1>4, <2>1, <2>2 DEF Orderly, OneMove, NoneReplied
  <2>4. DialogOnTurn' /\ OneReply'
    BY <1>1, <1>4, <2>1 DEF Orderly, DialogOnTurn, OneReply, Live, NoneReplied
  <2> QED BY <2>3, <2>4 DEF Orderly
<1> QED BY <1>1, <1>5, <1>6 DEF ScreenInv

-----------------------------------------------------------------------------
(* The engine's replies, and leaving the game *)

LEMMA ExportPositionOK ==
    ASSUME ScreenInv, NEW r \in AiJobs, ExportPosition(r)
    PROVE  ScreenInv'
<1>1. /\ aiJobs[r].at = "asked" /\ aiJobs[r].of = play.id
      /\ UNCHANGED <<board, play, taps, saved, resumed, hasty>>
  BY DEF ExportPosition
<1>2. ScreenTypes /\ StaleDiscarded /\ board \in Boards /\ aiJobs \in [AiJobs -> JobRecords]
  BY DEF ScreenInv, ScreenTypes
<1> DEFINE q == [aiJobs[r] EXCEPT !.at = "searching", !.plies = board.plies, !.white = board.white,
                                  !.over = board.over]
<1>3. q \in JobRecords /\ q.at = "searching" /\ q.of = play.id /\ q.over = board.over
  <2>1. aiJobs[r] \in JobRecords
    BY <1>2
  <2>2. board.plies \in Seq(Sides) /\ board.white \in BOOLEAN /\ board.over \in BOOLEAN
    BY <1>2 DEF Boards
  <2> QED BY <1>1, <2>1, <2>2 DEF JobRecords
<1>4. aiJobs' = [aiJobs EXCEPT ![r] = q]
  BY <1>2 DEF ExportPosition
<1> HIDE DEF q
<1>5. aiJobs' \in [AiJobs -> JobRecords] /\ aiJobs'[r] = q /\ \A s \in AiJobs \ {r} : aiJobs'[s] = aiJobs[s]
  BY <1>2, <1>3, <1>4
<1>6. ScreenTypes' /\ StaleDiscarded'
  BY <1>1, <1>2, <1>3, <1>5 DEF ScreenTypes, StaleDiscarded
<1>7. ASSUME ~hasty PROVE Orderly'
  <2>1. Orderly
    BY <1>7 DEF ScreenInv
  <2>2. ~board.over
    BY <1>1, <2>1 DEF Orderly, OneReply, Live
  <2>3. \A s \in AiJobs : (Live(s)' <=> Live(s)) /\ (aiJobs'[s].at = "replied" <=> aiJobs[s].at = "replied")
                          /\ aiJobs'[s].of = aiJobs[s].of
    BY <1>1, <1>3, <1>5 DEF Live
  <2>4. NoneReplied' <=> NoneReplied
    BY <2>3 DEF NoneReplied
  <2>5. OneMove' /\ DialogOnTurn'
    BY <1>1, <2>1, <2>4 DEF Orderly, OneMove, DialogOnTurn, InHand, Made, Moving
  <2>6. OneReply'
    BY <1>1, <1>3, <1>5, <2>1, <2>2, <2>3 DEF Orderly, OneReply
  <2> QED BY <2>5, <2>6 DEF Orderly
<1> QED BY <1>1, <1>6, <1>7 DEF ScreenInv

\* The move of the engine, or what is left of it.
LEMMA MadeReply ==
    ASSUME ScreenTypes, StaleDiscarded, NEW r \in AiJobs, aiJobs[r].of = play.id, MakeReply(r)
    PROVE  /\ board' \in Boards /\ board'.undoable <= Len(board'.plies)
           /\ board'.over \/ board'.choosing => Len(board'.plies) > 0
           /\ ~board'.ended /\ board'.choosing = board.choosing
           /\ play' \in Plays /\ play'.turn = "HUMAN" /\ play'.id = play.id
           /\ play'.thinking = play.thinking /\ play'.hint = play.hint
           /\ \A i \in DOMAIN play'.history : play'.history[i].of = play'.id
           /\ saved' \in Snapshots
<1> DEFINE side == IF aiJobs[r].white THEN "white" ELSE "black"
           ply == [side |-> side, of |-> aiJobs[r].of]
           recorded == [play EXCEPT !.history = Append(@, ply)]
<1>1. PICK legal \in BOOLEAN, ends \in BOOLEAN :
          LET moved == IF legal THEN Passed(Placed(side), ends) ELSE board
          IN  /\ board' = [moved EXCEPT !.ended = FALSE]
              /\ saved' = IF moved.ended THEN Cleared
                          ELSE IF aiJobs[r].saves THEN Snapshot(moved) ELSE saved
  BY DEF MakeReply
<1>2. play' = [play EXCEPT !.turn = "HUMAN", !.history = Append(@, ply)]
  BY DEF MakeReply
<1> DEFINE moved == IF legal THEN Passed(Placed(side), ends) ELSE board
<1>3. /\ board' = [moved EXCEPT !.ended = FALSE]
      /\ saved' = IF moved.ended THEN Cleared
                  ELSE IF aiJobs[r].saves THEN Snapshot(moved) ELSE saved
  BY <1>1
<1>4. side \in Sides /\ play.id \in Nat
  BY DEF Sides, ScreenTypes, Plays
<1>5. ply \in Plies /\ ply.of = play.id
  BY <1>4 DEF Plies
<1> HIDE DEF side, ply
<1>6. /\ board \in Boards /\ board.undoable <= Len(board.plies) /\ play \in Plays /\ saved \in Snapshots
      /\ (board.over \/ board.choosing => Len(board.plies) > 0)
      /\ Len(board.plies) \in Nat /\ board.undoable \in Nat
  BY LenProperties DEF ScreenTypes, Boards
<1>7. /\ recorded \in Plays /\ recorded.turn = play.turn /\ recorded.thinking = play.thinking
      /\ recorded.id = play.id /\ recorded.hint = play.hint
      /\ \A i \in DOMAIN recorded.history : recorded.history[i].of = recorded.id
  BY <1>5, <1>6, HistoryGrows
<1>8. play' = [recorded EXCEPT !.turn = "HUMAN"]
  BY <1>2, <1>6 DEF Plays
<1> HIDE DEF recorded
<1>9. /\ play' \in Plays /\ play'.turn = "HUMAN" /\ play'.id = play.id
      /\ play'.thinking = play.thinking /\ play'.hint = play.hint /\ play'.history = recorded.history
  BY <1>7, <1>8 DEF Plays
<1>10. /\ moved \in Boards /\ moved.undoable <= Len(moved.plies)
       /\ (moved.over \/ moved.choosing => Len(moved.plies) > 0)
       /\ moved.choosing = board.choosing
  <2>1. CASE ~legal
    BY <1>6, <2>1
  <2>2. CASE legal
    <3> DEFINE placed == Placed(side)
    <3>1. /\ placed \in Boards /\ Len(placed.plies) = Len(board.plies) + 1
          /\ placed.undoable = board.undoable + 1 /\ placed.choosing = board.choosing
      BY <1>4, <1>6, PlacedBoard
    <3>2. moved = Passed(placed, ends)
      BY <2>2
    <3> HIDE DEF placed, moved
    <3>3. moved \in Boards /\ moved.plies = placed.plies /\ moved.undoable = placed.undoable
          /\ moved.choosing = placed.choosing
      BY <3>1, <3>2, PassedBoard
    <3>4. Len(placed.plies) > 0 /\ placed.undoable <= Len(placed.plies)
      BY <1>6, <3>1
    <3> QED BY <3>1, <3>3, <3>4
  <2> QED BY <2>1, <2>2
<1> HIDE DEF moved
<1>11. /\ board' \in Boards /\ board'.plies = moved.plies /\ board'.undoable = moved.undoable
       /\ board'.over = moved.over /\ ~board'.ended /\ board'.choosing = board.choosing
  BY <1>3, <1>10 DEF Boards
<1>12. saved' \in Snapshots
  BY <1>3, <1>6, <1>10, ScreenRecords, SnapshotRecords
<1> QED BY <1>7, <1>9, <1>10, <1>11, <1>12

LEMMA ReplyArrivesOK ==
    ASSUME ScreenInv, NEW r \in AiJobs, ReplyArrives(r)
    PROVE  ScreenInv'
<1>1. /\ aiJobs[r].at = "searching" /\ aiJobs[r].of = play.id
      /\ aiJobs' = [aiJobs EXCEPT ![r] = [NoJob EXCEPT !.at = "replied", !.of = play.id]]
      /\ UNCHANGED <<taps, resumed, hasty>>
  BY DEF ReplyArrives
<1>2. ScreenTypes /\ StaleDiscarded /\ board \in Boards /\ play \in Plays /\ saved \in Snapshots
      /\ aiJobs \in [AiJobs -> JobRecords] /\ play.id \in Nat
  BY DEF ScreenInv, ScreenTypes, Plays
<1> DEFINE q == [NoJob EXCEPT !.at = "replied", !.of = play.id]
<1>3. q \in JobRecords /\ q.at = "replied" /\ q.of = play.id
  BY <1>2, ScreenRecords DEF JobRecords
<1>4. aiJobs' = [aiJobs EXCEPT ![r] = q]
  BY <1>1
<1> HIDE DEF q
<1>5. aiJobs' \in [AiJobs -> JobRecords] /\ aiJobs'[r] = q /\ \A s \in AiJobs \ {r} : aiJobs'[s] = aiJobs[s]
  BY <1>2, <1>3, <1>4
<1>6. /\ board' \in Boards /\ board'.undoable <= Len(board'.plies)
      /\ board'.over \/ board'.choosing => Len(board'.plies) > 0
      /\ board'.choosing = board.choosing
      /\ play' \in Plays /\ play'.id = play.id
      /\ play'.thinking = play.thinking /\ play'.hint = play.hint
      /\ \A i \in DOMAIN play'.history : play'.history[i].of = play'.id
      /\ saved' \in Snapshots
      /\ play.turn = "AI" => play'.turn = "HUMAN" /\ (~board'.ended \/ board' = board)
  <2>1. CASE MakeReply(r)
    BY <1>1, <1>2, <2>1, MadeReply
  <2>2. CASE play.turn = "AI" /\ GiveTurnBack /\ UNCHANGED <<board, saved>>
    <3>1. play' \in Plays /\ play'.turn = "HUMAN" /\ play'.id = play.id /\ play'.hint = play.hint
          /\ play'.thinking = play.thinking /\ play'.history = play.history
      BY <1>2, <2>2 DEF GiveTurnBack, Plays
    <3> QED BY <1>2, <2>2, <3>1 DEF ScreenTypes, StaleDiscarded
  <2>3. CASE play.turn # "AI" /\ UNCHANGED <<board, play, saved>>
    BY <1>2, <2>3 DEF ScreenTypes, StaleDiscarded
  <2> QED BY <2>1, <2>2, <2>3 DEF ReplyArrives
<1>7. play.id <= play.id
  BY <1>2
<1>8. ScreenTypes' /\ StaleDiscarded'
  BY <1>1, <1>2, <1>3, <1>5, <1>6, <1>7 DEF ScreenTypes, StaleDiscarded
<1>9. ASSUME ~hasty PROVE Orderly'
  <2>1. Orderly
    BY <1>9 DEF ScreenInv
  <2>2. Live(r) /\ play.turn = "AI" /\ play.turn # "HUMAN"
    BY <1>1, <1>2, <2>1 DEF Orderly, OneReply, Live, Plays
  <2>3. (\A t \in Taps : ~Moving(t) /\ ~Made(t)) /\ ~board.choosing /\ ~board.ended
    BY <2>1, <2>2 DEF Orderly, OneMove, DialogOnTurn, Moving
  <2>4. ~board'.ended /\ ~board'.choosing
    BY <1>6, <2>2, <2>3
  <2>5. \A s \in AiJobs : ~Live(s)'
    BY <1>3, <1>5, <1>6, <2>1, <2>2 DEF Orderly, OneReply, Live
  <2>6. \A t \in Taps : ~Moving(t)' /\ ~Made(t)' /\ (InHand(t)' <=> InHand(t))
    BY <1>1, <2>3 DEF Moving, Made, InHand
  <2>7. OneMove'
    BY <1>1, <1>6, <2>1, <2>4, <2>6 DEF Orderly, OneMove
  <2>8. DialogOnTurn'
    BY <2>4 DEF DialogOnTurn
  <2>9. OneReply'
    BY <1>3, <1>5, <1>6, <2>1, <2>2, <2>5 DEF Orderly, OneReply
  <2> QED BY <2>7, <2>8, <2>9 DEF Orderly
<1> QED BY <1>1, <1>8, <1>9 DEF ScreenInv

LEMMA ReplyEndsOK ==
    ASSUME ScreenInv, NEW r \in AiJobs, ReplyEnds(r)
    PROVE  ScreenInv'
<1>1. /\ aiJobs[r].at = "replied" \/ aiJobs[r].of # play.id
      /\ aiJobs' = [aiJobs EXCEPT ![r] = NoJob] /\ play' = [play EXCEPT !.thinking = FALSE]
      /\ UNCHANGED <<board, taps, saved, resumed, hasty>>
  BY DEF ReplyEnds
<1>2. ScreenTypes /\ StaleDiscarded /\ play \in Plays /\ aiJobs \in [AiJobs -> JobRecords]
      /\ play.id \in Nat
  BY DEF ScreenInv, ScreenTypes, Plays
<1>3. /\ play' \in Plays /\ play'.turn = play.turn /\ ~play'.thinking
      /\ play'.id = play.id /\ play'.history = play.history /\ play'.hint = play.hint
  BY <1>1, <1>2 DEF Plays
<1>4. aiJobs' \in [AiJobs -> JobRecords] /\ aiJobs'[r] = NoJob
      /\ \A s \in AiJobs \ {r} : aiJobs'[s] = aiJobs[s]
  BY <1>1, <1>2, ScreenRecords
<1>5. NoJob.at = "idle" /\ NoJob.of = 0 /\ 0 <= play.id
  BY <1>2, ScreenRecords
<1>6. ScreenTypes' /\ StaleDiscarded'
  BY <1>1, <1>2, <1>3, <1>4, <1>5 DEF ScreenTypes, StaleDiscarded
<1>7. ASSUME ~hasty PROVE Orderly'
  <2>1. Orderly
    BY <1>7 DEF ScreenInv
  <2>2. \A s \in AiJobs : (Live(s)' <=> Live(s)) /\ (aiJobs'[s].at = "replied" => aiJobs[s].at = "replied")
    BY <1>1, <1>3, <1>4, <1>5 DEF Live
  <2>3. NoneReplied => NoneReplied'
    BY <2>2 DEF NoneReplied
  <2>4. OneMove' /\ DialogOnTurn'
    BY <1>1, <1>3, <2>1, <2>3 DEF Orderly, OneMove, DialogOnTurn, InHand, Made, Moving
  <2>5. OneReply'
    BY <1>1, <1>3, <1>4, <1>5, <2>1, <2>2 DEF Orderly, OneReply
  <2> QED BY <2>4, <2>5 DEF Orderly
<1> QED BY <1>1, <1>6, <1>7 DEF ScreenInv

\* A new state of the game: what was under way is of another one.
LEMMA NewState ==
    ASSUME ScreenInv, PlayerMayAct, play.id < MaxResets[hasty], play' = Invalidated,
           board' \in Boards, board'.undoable <= Len(board'.plies),
           board'.over => Len(board'.plies) > 0,
           board'.ended = board.ended, ~board'.choosing, saved' \in Snapshots,
           resumed' \in BOOLEAN, UNCHANGED <<taps, aiJobs, hasty>>
    PROVE  ScreenInv'
<1>1. ScreenTypes /\ play.id \in Nat /\ MaxResets[hasty] \in Nat
  BY PlayScreenAssumption DEF ScreenInv, ScreenTypes, Plays
<1>2. /\ play' \in Plays /\ play'.turn = "HUMAN" /\ ~play'.thinking /\ play'.id = play.id + 1
      /\ play'.history = <<>> /\ play'.hint = {}
  BY <1>1, ScreenRecords DEF Invalidated, Plays
<1>3. /\ play'.id <= MaxResets[hasty] /\ \A n \in Nat : n <= play.id => n <= play'.id /\ n # play'.id
  BY <1>1, <1>2
<1>4. \A t \in Taps : taps[t].of \in Nat
  BY <1>1 DEF ScreenTypes, TapRecords
<1>5. \A r \in AiJobs : aiJobs[r].of \in Nat
  BY <1>1 DEF ScreenTypes, JobRecords
<1>6. ScreenTypes'
  BY <1>1, <1>2, <1>3, <1>4, <1>5 DEF ScreenTypes
<1>7. StaleDiscarded'
  BY <1>2 DEF StaleDiscarded
<1>8. ASSUME ~hasty PROVE Orderly'
  <2>1. Orderly /\ Settled
    BY <1>8 DEF ScreenInv, PlayerMayAct
  <2>2. \A t \in Taps : ~InHand(t)' /\ ~Moving(t)' /\ ~Made(t)' /\ ~Made(t)
    BY <2>1 DEF Settled, InHand, Moving, Made
  <2>3. ~board'.ended
    BY <2>1, <2>2 DEF Orderly, OneMove
  <2>4. \A r \in AiJobs : ~Live(r)'
    BY <1>1, <1>3, <1>5 DEF ScreenTypes, Live
  <2>5. OneMove' /\ DialogOnTurn'
    BY <2>2, <2>3 DEF OneMove, DialogOnTurn
  <2>6. OneReply'
    BY <1>2, <2>1, <2>4 DEF Orderly, OneReply
  <2> QED BY <2>5, <2>6 DEF Orderly
<1> QED BY <1>6, <1>7, <1>8 DEF ScreenInv

LEMMA UndoOrResetOK == ScreenInv /\ (Undo \/ ResetGame) => ScreenInv'
<1>1. ASSUME ScreenInv, Undo PROVE ScreenInv'
  <2>1. ScreenTypes /\ ~board.choosing /\ saved \in Snapshots /\ resumed \in BOOLEAN
    BY <1>1 DEF ScreenInv, ScreenTypes, Undo, PlayerMayAct
  <2>2. /\ board' \in Boards /\ board'.undoable <= Len(board'.plies)
        /\ board'.over => Len(board'.plies) > 0
        /\ board'.ended = board.ended /\ board'.choosing = board.choosing
    BY <1>1, <2>1, UndoneBothBoard DEF Undo
  <2>3. PlayerMayAct /\ play.id < MaxResets[hasty] /\ play' = Invalidated
        /\ UNCHANGED <<taps, aiJobs, saved, resumed, hasty>>
    BY <1>1 DEF Undo
  <2>4. saved' \in Snapshots /\ resumed' \in BOOLEAN /\ ~board'.choosing
    BY <2>1, <2>2, <2>3
  <2> QED BY <1>1, <2>2, <2>3, <2>4, NewState
<1>2. ASSUME ScreenInv, ResetGame PROVE ScreenInv'
  <2>1. board \in Boards
    BY <1>2 DEF ScreenInv, ScreenTypes
  <2>2. /\ PlayerMayAct /\ play.id < MaxResets[hasty] /\ play' = Invalidated
        /\ board' = [NewBoard EXCEPT !.ended = board.ended]
        /\ saved' = NoSnapshot /\ resumed' = FALSE /\ UNCHANGED <<taps, aiJobs, hasty>>
    BY <1>2 DEF ResetGame
  <2>3. /\ board' \in Boards /\ board'.undoable = 0 /\ board'.plies = <<>>
        /\ ~board'.over /\ board'.ended = board.ended /\ ~board'.choosing
    BY <2>1, <2>2, ScreenRecords DEF Boards
  <2>4. board'.undoable <= Len(board'.plies)
    BY <2>3, EmptySeq
  <2>5. saved' \in Snapshots /\ resumed' \in BOOLEAN
    BY <2>2, ScreenRecords
  <2> QED BY <1>2, <2>2, <2>3, <2>4, <2>5, NewState
<1> QED BY <1>1, <1>2

\* The state that a snapshot restores.
LEMMA RestoredPlay ==
    ASSUME NEW s \in Snapshots
    PROVE  /\ Restored(s) \in Plays /\ Restored(s).id = 1 /\ ~Restored(s).thinking
           /\ Restored(s).hint = {}
           /\ \A i \in DOMAIN Restored(s).history : Restored(s).history[i].of = 1
<1> DEFINE h == [i \in DOMAIN s.history |-> [side |-> s.history[i], of |-> 1]]
           turn == IF Len(s.history) % 2 = 0 THEN "HUMAN" ELSE "AI"
<1>1. s.history \in Seq(Sides)
  BY DEF Snapshots
<1>2. Len(s.history) \in Nat /\ DOMAIN s.history = 1..Len(s.history)
      /\ \A i \in 1..Len(s.history) : s.history[i] \in Sides
  BY <1>1, LenProperties, ElementOfSeq
<1>3. \A i \in DOMAIN s.history : [side |-> s.history[i], of |-> 1] \in Plies
  BY <1>2 DEF Plies
<1>4. h \in [1..Len(s.history) -> Plies]
  BY <1>2, <1>3
<1>5. h \in Seq(Plies)
  BY <1>2, <1>4, SeqDef
<1>6. turn \in {"HUMAN", "AI"}
  OBVIOUS
<1>7. \A i \in DOMAIN h : h[i].of = 1
  OBVIOUS
<1>8. Restored(s) = [NewPlay EXCEPT !.id = 1, !.turn = turn, !.history = h]
  BY DEF Restored
<1> HIDE DEF h, turn
<1>9. Restored(s) = [turn |-> turn, thinking |-> FALSE, id |-> 1, history |-> h, hint |-> {}]
  BY <1>8 DEF NewPlay
<1>10. Restored(s).id = 1 /\ ~Restored(s).thinking /\ Restored(s).hint = {}
       /\ Restored(s).history = h
  BY <1>9
<1>11. 1 \in Nat /\ FALSE \in BOOLEAN /\ {} \in SUBSET Nat
  OBVIOUS
<1>12. Restored(s) \in Plays
  BY <1>5, <1>6, <1>9, <1>11, SMT DEF Plays
<1> QED BY <1>7, <1>10, <1>12

LEMMA LeaveAndReturnOK == ScreenInv /\ LeaveAndReturn => ScreenInv'
<1> SUFFICES ASSUME ScreenInv, LeaveAndReturn PROVE ScreenInv'
  OBVIOUS
<1>1. ScreenTypes /\ board \in Boards /\ play \in Plays /\ saved \in Snapshots /\ hasty \in BOOLEAN
      /\ 1 <= MaxResets[hasty] /\ 0 <= MaxResets[hasty]
  BY PlayScreenAssumption DEF ScreenInv, ScreenTypes
<1>2. PICK exits \in BOOLEAN, resumes \in BOOLEAN :
        LET kept == IF exits /\ play.history # <<>> THEN Snapshot(board) ELSE saved
        IN /\ IF resumes
              THEN /\ board' = [NewBoard EXCEPT !.plies = kept.plies, !.white = kept.white]
                   /\ play' = Restored(kept) /\ saved' = kept
              ELSE board' = NewBoard /\ play' = NewPlay /\ saved' = NoSnapshot
           /\ resumed' = resumes
           /\ taps' = [t \in Taps |-> NoTap] /\ aiJobs' = [r \in AiJobs |-> NoJob]
           /\ UNCHANGED hasty
  BY DEF LeaveAndReturn
<1> DEFINE kept == IF exits /\ play.history # <<>> THEN Snapshot(board) ELSE saved
<1>3. kept \in Snapshots
  BY <1>1, SnapshotRecords
<1>4. /\ IF resumes
         THEN /\ board' = [NewBoard EXCEPT !.plies = kept.plies, !.white = kept.white]
              /\ play' = Restored(kept) /\ saved' = kept
         ELSE board' = NewBoard /\ play' = NewPlay /\ saved' = NoSnapshot
      /\ resumed' = resumes
      /\ taps' = [t \in Taps |-> NoTap] /\ aiJobs' = [r \in AiJobs |-> NoJob]
      /\ UNCHANGED hasty
  BY <1>2
<1> HIDE DEF kept
<1>5. /\ taps' \in [Taps -> TapRecords] /\ aiJobs' \in [AiJobs -> JobRecords]
      /\ \A t \in Taps : taps'[t].at = "idle" /\ taps'[t].of = 0
      /\ \A r \in AiJobs : aiJobs'[r].at = "idle" /\ aiJobs'[r].of = 0
  BY <1>4, ScreenRecords
<1>6. /\ board' \in Boards /\ board'.undoable = 0 /\ ~board'.over /\ ~board'.ended /\ ~board'.choosing
  <2>1. kept.plies \in Seq(Sides) /\ kept.white \in BOOLEAN
    BY <1>3 DEF Snapshots
  <2> QED BY <1>4, <2>1, ScreenRecords DEF Boards
<1>7. /\ play' \in Plays /\ play'.id \in {0, 1} /\ ~play'.thinking /\ play'.hint = {}
      /\ \A i \in DOMAIN play'.history : play'.history[i].of = play'.id
      /\ ~resumed' => play'.turn = "HUMAN"
      /\ saved' \in Snapshots
  BY <1>3, <1>4, ScreenRecords, RestoredPlay
<1>8. 0 <= Len(board'.plies) /\ 0 <= play'.id /\ play'.id <= MaxResets[hasty]
  <2>1. Len(board'.plies) \in Nat
    BY <1>6, LenProperties DEF Boards
  <2> QED BY <1>1, <1>7, <2>1
<1>9. ScreenTypes'
  BY <1>1, <1>4, <1>5, <1>6, <1>7, <1>8 DEF ScreenTypes
<1>10. StaleDiscarded'
  BY <1>7 DEF StaleDiscarded
<1>11. Orderly'
  <2>1. \A t \in Taps : ~InHand(t)' /\ ~Moving(t)' /\ ~Made(t)'
    BY <1>5 DEF InHand, Moving, Made
  <2>2. \A r \in AiJobs : ~Live(r)' /\ aiJobs'[r].at # "searching"
    BY <1>5 DEF Live
  <2>3. ~(~resumed' /\ play'.turn = "AI")
    BY <1>7
  <2> QED BY <1>6, <1>7, <2>1, <2>2, <2>3 DEF Orderly, OneMove, DialogOnTurn, OneReply
<1> QED BY <1>9, <1>10, <1>11 DEF ScreenInv

\* The inductive invariant of the game screen.
THEOREM ScreenInvariance == ScreenSpec => []ScreenInv
<1>1. ScreenInv /\ [ScreenNext]_screenVars => ScreenInv'
  <2> SUFFICES ASSUME ScreenInv, [ScreenNext]_screenVars PROVE ScreenInv'
    OBVIOUS
  <2>1. ASSUME UNCHANGED screenVars PROVE ScreenInv'
    <3>1. ScreenTypes' /\ StaleDiscarded'
      BY <2>1 DEF ScreenInv, ScreenTypes, StaleDiscarded, screenVars
    <3>2. Orderly => Orderly'
      BY <2>1 DEF Orderly, OneMove, DialogOnTurn, OneReply, InHand, Made, Moving, Live, NoneReplied,
                  screenVars
    <3> QED BY <2>1, <3>1, <3>2 DEF ScreenInv, screenVars
  <2>2. ASSUME NEW t \in Taps, ApplyHumanMove(t) \/ RecordHumanMove(t) \/ HintArrives(t) PROVE ScreenInv'
    BY <2>2, ApplyHumanMoveOK, RecordHumanMoveOK, HintArrivesOK
  <2>3. ASSUME NEW r \in AiJobs, ExportPosition(r) \/ ReplyArrives(r) \/ ReplyEnds(r) PROVE ScreenInv'
    BY <2>3, ExportPositionOK, ReplyArrivesOK, ReplyEndsOK
  <2> QED BY <2>1, <2>2, <2>3, SelectPieceOK, TapTargetOK, PickPromotionOK, UndoOrResetOK,
             LeaveAndReturnOK DEF ScreenNext
<1> QED BY <1>1, ScreenStarts, PTL DEF ScreenSpec

\* PlayScreen.ScreenSafe: nothing of an earlier state reaches the screen; the
\* game of a player who waits for the app never freezes and its end is reported.
THEOREM ScreenIsSafe == ScreenSpec => []ScreenSafe
<1>1. ScreenInv => ScreenSafe
  <2> SUFFICES ASSUME ScreenInv PROVE ScreenSafe
    OBVIOUS
  <2>1. /\ board \in Boards /\ play \in Plays /\ saved \in Snapshots
        /\ taps \in [Taps -> TapRecords] /\ aiJobs \in [AiJobs -> JobRecords]
        /\ board.undoable <= Len(board.plies) /\ hasty \in BOOLEAN
        /\ board.over => Len(board.plies) > 0
        /\ play.id <= MaxResets[hasty]
        /\ \A t \in Taps : taps[t].of <= play.id
        /\ \A r \in AiJobs : aiJobs[r].of <= play.id
    BY DEF ScreenInv, ScreenTypes
  <2>2. board.plies \in Seq(Sides) /\ board.undoable \in Nat /\ board.selected \in Sides \union {"none"}
        /\ Len(board.plies) \in Nat /\ Len(<<>>) = 0
    BY <2>1, LenProperties, EmptySeq DEF Boards
  <2>3. play.turn \in {"HUMAN", "AI"} /\ play.id \in Nat /\ SidesOf(play.history) \in Seq(Sides)
        /\ MaxResets[hasty] \in Nat
    BY <2>1, SidesAreSides, PlayScreenAssumption DEF Plays
  <2>4. board.undoable \in 0..Len(board.plies) /\ play.id \in 0..MaxResets[hasty]
        /\ (board.over => board.plies # <<>>)
    BY <2>1, <2>2, <2>3
  <2>5. ScreenTypeOK
    <3>1. \A t \in Taps : taps[t].at \in {"idle", "launched", "applied", "coaching"}
      BY <2>1 DEF TapRecords
    <3>2. \A r \in AiJobs : aiJobs[r].at \in {"idle", "asked", "searching", "replied"}
      BY <2>1 DEF JobRecords
    <3>3. saved.history \in Seq(Sides)
      BY <2>1 DEF Snapshots
    <3> QED BY <2>1, <2>2, <2>3, <2>4, <3>1, <3>2, <3>3 DEF ScreenTypeOK
  <2>6. NeverFrozen
    BY DEF ScreenInv, Orderly, OneReply, Live, NeverFrozen
  <2>7. EndIsReported
    BY DEF ScreenInv, Orderly, OneReply, OneMove, Made, Settled, EndIsReported
  <2>8. StaleDiscarded
    BY DEF ScreenInv
  <2> QED BY <2>5, <2>6, <2>7, <2>8 DEF ScreenSafe
<1> QED BY <1>1, ScreenInvariance, PTL

-----------------------------------------------------------------------------
(* The puzzle trainer (PuzzleTrainer) *)

PuzzleIds == {"none"} \union {p.id : p \in Payloads}
             \union UNION {{e.id : e \in ToSet(c)} : c \in Corpora}
AnyPuzzle == [id : PuzzleIds, fen : Seq(PuzzleMoves), line : Seq(PuzzleMoves)]
Sheets == [puzzle : AnyPuzzle, index : Nat, fen : Tree, board : Tree,
           open : BOOLEAN, fetching : BOOLEAN, crossed : BOOLEAN]
CheckRecords == [stage : {"idle", "verify", "solve"}, puzzle : AnyPuzzle, fen : Tree,
                 move : PuzzleMoves \union {"none"}]

\* The position after n moves of a puzzle's line.
After(p, n) == p.fen \o SubSeq(p.line, 1, n)

\* The line of the puzzle on the sheet is legal; the board shows its position, and the move
\* that is being checked, if any.
SheetFits(s) ==
    /\ s \in Sheets
    /\ s.puzzle # NoPuzzle => s.puzzle.line # <<>> /\ Whole(s.puzzle) \in Tree
    /\ s.index = 0 \/ s.index < Len(s.puzzle.line)
    /\ s.open => s.puzzle # NoPuzzle /\ s.board = s.fen
    /\ IsPrefix(s.fen, s.board)
    /\ ~s.crossed => s.fen = After(s.puzzle, s.index)

CheckFits(c) ==
    /\ c \in CheckRecords
    /\ c # NoCheck => /\ c.stage # "idle" /\ c.puzzle # NoPuzzle /\ c.move \in PuzzleMoves
                      /\ Append(c.fen, c.move) \in Tree

\* An attempt at the puzzle on the sheet: the board is locked on its move until it
\* is judged, and it is worth a credit when it left the line or ended it.
AttemptFits(s, c) ==
    c # NoCheck =>
      /\ c.puzzle = s.puzzle /\ c.fen = s.fen /\ ~s.open
      /\ c.stage = "verify" => s.board = Append(s.fen, c.move)
      /\ c.stage = "solve" => /\ Append(c.fen, c.move) \in Sound
                              /\ ~FollowsLine(s.puzzle.line, s.index, c.move)

TrainerInv ==
    /\ corpus \in Corpora /\ hint \in Hints /\ SheetFits(sheet)
    /\ checks \in [Checks -> CheckRecords] /\ \A k \in Checks : CheckFits(checks[k])
    /\ sheet.puzzle = NoPuzzle => \A k \in Checks : checks[k] = NoCheck
    /\ ~sheet.crossed =>
         /\ \A k \in Checks : AttemptFits(sheet, checks[k])
         /\ \A j, k \in Checks : checks[j] # NoCheck /\ checks[k] # NoCheck => j = k

\* The first elements of a sequence.
LEMMA PrefixOf ==
    ASSUME NEW S, NEW s \in Seq(S), NEW n \in Nat, n <= Len(s)
    PROVE  /\ SubSeq(s, 1, n) \in Seq(S) /\ Len(SubSeq(s, 1, n)) = n
           /\ \A i \in 1..n : SubSeq(s, 1, n)[i] = s[i]
<1>1. 1 \in 1..Len(s) + 1 /\ n \in 1 - 1..Len(s)
  BY LenProperties
<1>2. SubSeq(s, 1, n) \in Seq(S) /\ Len(SubSeq(s, 1, n)) = (IF 1 <= n THEN n - 1 + 1 ELSE 0)
      /\ \A i \in 1..n - 1 + 1 : SubSeq(s, 1, n)[i] = s[1 + i - 1]
  BY <1>1, SubSeqProperties
<1> QED BY <1>2

\* The last move of a position, and the position before it.
LEMMA FrontLast ==
    ASSUME NEW S, NEW s \in Seq(S), s # <<>>
    PROVE  Front(s) \in Seq(S) /\ Last(s) \in S /\ Append(Front(s), Last(s)) = s
<1>1. Len(s) \in Nat /\ Len(s) >= 1
  BY EmptySeq, LenProperties
<1>2. /\ Front(s) \in Seq(S) /\ Len(Front(s)) = Len(s) - 1
      /\ \A i \in 1..Len(s) - 1 : Front(s)[i] = s[i]
  <2>1. Len(s) - 1 \in Nat /\ Len(s) - 1 <= Len(s)
    BY <1>1
  <2> QED BY <2>1, PrefixOf DEF Front
<1>3. Last(s) \in S
  BY <1>1, ElementOfSeq DEF Last
<1>4. /\ Append(Front(s), Last(s)) \in Seq(S) /\ Len(Append(Front(s), Last(s))) = Len(s)
      /\ \A i \in 1..Len(s) - 1 : Append(Front(s), Last(s))[i] = s[i]
      /\ Append(Front(s), Last(s))[Len(s)] = s[Len(s)]
  BY <1>1, <1>2, <1>3, AppendProperties DEF Last
<1>5. \A i \in 1..Len(s) : Append(Front(s), Last(s))[i] = s[i]
  BY <1>1, <1>4
<1>6. Append(Front(s), Last(s)) = s
  BY <1>4, <1>5, SeqEqual
<1> QED BY <1>2, <1>3, <1>6

\* A prefix has the elements of the whole.
LEMMA PrefixView ==
    ASSUME NEW S, NEW s \in Seq(S), NEW t \in Seq(S)
    PROVE  IsPrefix(s, t) <=> Len(s) <= Len(t) /\ \A i \in 1..Len(s) : s[i] = t[i]
<1>1. Len(s) \in Nat /\ Len(t) \in Nat
  BY LenProperties
<1>2. /\ SubSeq(s, 1, Len(s)) \in Seq(S) /\ Len(SubSeq(s, 1, Len(s))) = Len(s)
      /\ \A i \in 1..Len(s) : SubSeq(s, 1, Len(s))[i] = s[i]
  BY <1>1, SubSeqProperties
<1>3. ASSUME Len(s) <= Len(t)
      PROVE  /\ SubSeq(t, 1, Len(s)) \in Seq(S) /\ Len(SubSeq(t, 1, Len(s))) = Len(s)
             /\ \A i \in 1..Len(s) : SubSeq(t, 1, Len(s))[i] = t[i]
  BY <1>1, <1>3, SubSeqProperties
<1>4. ASSUME Len(s) <= Len(t), \A i \in 1..Len(s) : s[i] = t[i]
      PROVE  SubSeq(s, 1, Len(s)) = SubSeq(t, 1, Len(s))
  <2>1. \A i \in 1..Len(s) : SubSeq(s, 1, Len(s))[i] = SubSeq(t, 1, Len(s))[i]
    BY <1>2, <1>3, <1>4
  <2> QED BY <1>2, <1>3, <1>4, <2>1, SeqEqual
<1>5. ASSUME Len(s) <= Len(t), SubSeq(s, 1, Len(s)) = SubSeq(t, 1, Len(s))
      PROVE  \A i \in 1..Len(s) : s[i] = t[i]
  BY <1>2, <1>3, <1>5
<1> QED BY <1>4, <1>5 DEF IsPrefix

LEMMA PrefixSelf ==
    ASSUME NEW S, NEW s \in Seq(S)
    PROVE  IsPrefix(s, s)
BY LenProperties DEF IsPrefix

LEMMA PrefixAppend ==
    ASSUME NEW S, NEW s \in Seq(S), NEW t \in Seq(S), NEW x \in S, IsPrefix(s, t)
    PROVE  IsPrefix(s, Append(t, x))
<1>1. /\ Append(t, x) \in Seq(S) /\ Len(Append(t, x)) = Len(t) + 1
      /\ \A i \in 1..Len(t) : Append(t, x)[i] = t[i]
  BY AppendProperties
<1>2. Len(s) \in Nat /\ Len(t) \in Nat
  BY LenProperties
<1>3. Len(s) <= Len(t) /\ \A i \in 1..Len(s) : s[i] = t[i]
  BY PrefixView
<1>4. Len(s) <= Len(Append(t, x)) /\ \A i \in 1..Len(s) : s[i] = Append(t, x)[i]
  BY <1>1, <1>2, <1>3
<1> QED BY <1>1, <1>4, PrefixView

\* The elements of a concatenation and of its prefixes.
LEMMA ConcatView ==
    ASSUME NEW S, NEW f \in Seq(S), NEW l \in Seq(S)
    PROVE  /\ f \o l \in Seq(S) /\ Len(f \o l) = Len(f) + Len(l)
           /\ \A i \in 1..Len(f) : (f \o l)[i] = f[i]
           /\ \A i \in 1..Len(l) : (f \o l)[Len(f) + i] = l[i]
<1>1. PICK a \in Nat, b \in Nat : a = Len(f) /\ b = Len(l)
  BY LenProperties
<1>2. PICK w \in Seq(S) : w = f \o l
  BY ConcatProperties
<1>3. /\ Len(w) = a + b
      /\ \A i \in 1..a + b : w[i] = IF i <= a THEN f[i] ELSE l[i - a]
  BY <1>1, <1>2, ConcatProperties
<1>4. \A i \in 1..a : w[i] = f[i]
  BY <1>3
<1>5. ASSUME NEW i \in 1..b PROVE w[a + i] = l[i]
  <2>1. a + i \in 1..a + b /\ ~(a + i <= a) /\ (a + i) - a = i
    OBVIOUS
  <2>2. w[a + i] = l[(a + i) - a]
    BY <1>3, <2>1
  <2> QED BY <2>1, <2>2
<1> QED BY <1>1, <1>2, <1>3, <1>4, <1>5

LEMMA ConcatPrefix ==
    ASSUME NEW S, NEW f \in Seq(S), NEW l \in Seq(S), NEW m \in Nat, m <= Len(l)
    PROVE  f \o SubSeq(l, 1, m) = SubSeq(f \o l, 1, Len(f) + m)
           /\ Len(f) + m \in Nat /\ Len(f) + m <= Len(f \o l)
<1>1. PICK a \in Nat, b \in Nat : a = Len(f) /\ b = Len(l)
  BY LenProperties
<1>2. PICK w \in Seq(S) : w = f \o l
  BY ConcatProperties
<1>3. PICK g \in Seq(S) : g = SubSeq(l, 1, m)
  BY PrefixOf
<1>4. Len(g) = m /\ \A i \in 1..m : g[i] = l[i]
  BY <1>3, PrefixOf
<1>5. Len(w) = a + b /\ (\A i \in 1..a : w[i] = f[i]) /\ (\A i \in 1..b : w[a + i] = l[i])
  BY <1>1, <1>2, ConcatView
<1>6. PICK v \in Seq(S) : v = f \o g
  BY ConcatProperties
<1>7. Len(v) = a + m /\ (\A i \in 1..a : v[i] = f[i]) /\ (\A i \in 1..m : v[a + i] = g[i])
  <2>1. /\ Len(f \o g) = Len(f) + Len(g)
        /\ \A i \in 1..Len(f) : (f \o g)[i] = f[i]
        /\ \A i \in 1..Len(g) : (f \o g)[Len(f) + i] = g[i]
    BY ConcatView
  <2> QED BY ONLY <1>1, <1>4, <1>6, <2>1
<1>8. a + m \in Nat /\ a + m <= Len(w)
  BY <1>1, <1>5
<1>9. PICK u \in Seq(S) : u = SubSeq(w, 1, a + m)
  BY <1>8, PrefixOf
<1>10. Len(u) = a + m /\ \A i \in 1..a + m : u[i] = w[i]
  BY <1>8, <1>9, PrefixOf
<1>11. ASSUME NEW i \in 1..a + m PROVE v[i] = u[i]
  <2>1. CASE i <= a
    BY <1>5, <1>7, <1>10, <2>1
  <2>2. CASE i > a
    <3>1. PICK k \in 1..m : i = a + k
      <4>1. i - a \in 1..m /\ i = a + (i - a)
        BY <2>2
      <4> QED BY <4>1
    <3>2. k \in 1..b
      BY <1>1, <3>1
    <3> QED BY <1>4, <1>5, <1>7, <1>10, <3>1, <3>2
  <2> QED BY <2>1, <2>2
<1>12. v = u
  BY <1>7, <1>10, <1>11, SeqEqual
<1> QED BY <1>1, <1>2, <1>3, <1>6, <1>8, <1>9, <1>12

\* The walk of a puzzle: each move of its line leads one position further.
LEMMA WalkOn ==
    ASSUME NEW p \in AnyPuzzle, Whole(p) \in Tree, NEW n \in Nat, n < Len(p.line)
    PROVE  /\ After(p, n) \in Tree /\ After(p, n + 1) \in Tree /\ p.line[n + 1] \in PuzzleMoves
           /\ Append(After(p, n), p.line[n + 1]) = After(p, n + 1)
           /\ IsPrefix(After(p, n), Whole(p))
           /\ Len(After(p, n)) = Len(p.fen) + n
           /\ Len(Whole(p)) = Len(p.fen) + Len(p.line)
           /\ \A m \in PuzzleMoves : IsPrefix(Append(After(p, n), m), Whole(p)) => m = p.line[n + 1]
<1>1. PICK f \in Seq(PuzzleMoves), l \in Seq(PuzzleMoves) : f = p.fen /\ l = p.line
  BY DEF AnyPuzzle
<1>2. PICK a \in Nat, b \in Nat : a = Len(f) /\ b = Len(l)
  BY LenProperties
<1>3. PICK w \in Seq(PuzzleMoves) : w = f \o l
  BY ConcatProperties
<1>4. w = Whole(p) /\ w \in Tree
  BY <1>1, <1>3 DEF Whole
<1>n. n < b /\ n + 1 \in 1..b /\ a + n \in Nat /\ a + n + 1 \in Nat /\ a + n + 1 = a + (n + 1)
  <2>1. n < b
    BY <1>1, <1>2
  <2> QED BY ONLY <2>1, n \in Nat, a \in Nat, b \in Nat
<1>5. /\ Len(w) = a + b /\ \A i \in 1..b : w[a + i] = l[i]
  BY <1>2, <1>3, ConcatView
<1>6. ASSUME NEW m \in Nat, m <= b PROVE After(p, m) = SubSeq(w, 1, a + m) /\ a + m <= Len(w)
  <2>1. f \o SubSeq(l, 1, m) = SubSeq(f \o l, 1, Len(f) + m) /\ Len(f) + m <= Len(f \o l)
    BY <1>2, <1>6, ConcatPrefix
  <2> QED BY <1>1, <1>2, <1>3, <2>1 DEF After
<1>l. a + n <= Len(w) /\ a + n + 1 <= Len(w)
  BY <1>n, <1>5
<1>7. PICK u \in Seq(PuzzleMoves) : u = SubSeq(w, 1, a + n)
  BY <1>n, <1>l, PrefixOf
<1>8. PICK v \in Seq(PuzzleMoves) : v = SubSeq(w, 1, a + n + 1)
  BY <1>n, <1>l, PrefixOf
<1>9. Len(u) = a + n /\ \A i \in 1..a + n : u[i] = w[i]
  BY <1>n, <1>l, <1>7, PrefixOf
<1>10. Len(v) = a + n + 1 /\ \A i \in 1..a + n + 1 : v[i] = w[i]
  BY <1>n, <1>l, <1>8, PrefixOf
<1>11. After(p, n) = u /\ After(p, n + 1) = v
  BY <1>n, <1>6, <1>7, <1>8
<1>12. u \in Tree /\ v \in Tree
  <2>1. a + n \in 0..Len(w) /\ a + n + 1 \in 0..Len(w)
    <3>1. PICK z \in Nat : z = Len(w)
      BY LenProperties
    <3>2. a + n <= z /\ a + n + 1 <= z
      BY <1>l, <3>1
    <3>3. a + n \in 0..z /\ a + n + 1 \in 0..z
      BY ONLY <1>n, <3>2, z \in Nat
    <3> QED BY <3>1, <3>3
  <2> QED BY <1>4, <1>7, <1>8, <2>1, TrainerAssumption
<1>13. l[n + 1] \in PuzzleMoves /\ w[a + n + 1] = l[n + 1]
  BY <1>2, <1>n, <1>5, ElementOfSeq
<1>14. ASSUME NEW m \in PuzzleMoves
       PROVE  /\ Append(u, m) \in Seq(PuzzleMoves) /\ Len(Append(u, m)) = a + n + 1
              /\ \A i \in 1..a + n : Append(u, m)[i] = w[i]
              /\ Append(u, m)[a + n + 1] = m
  BY <1>9, AppendProperties
<1>15. Append(u, l[n + 1]) = v
  <2>1. PICK t \in Seq(PuzzleMoves) : t = Append(u, l[n + 1])
    BY <1>13, <1>14
  <2>2. Len(t) = a + n + 1 /\ (\A i \in 1..a + n : t[i] = w[i]) /\ t[a + n + 1] = l[n + 1]
    BY <1>13, <1>14, <2>1
  <2>3. ASSUME NEW i \in 1..a + n + 1 PROVE t[i] = v[i]
    <3>1. i \in 1..a + n \/ i = a + n + 1
      BY <1>n
    <3> QED BY <1>10, <1>13, <2>2, <3>1
  <2> QED BY <1>10, <2>1, <2>2, <2>3, SeqEqual
<1>16. IsPrefix(u, w)
  <2>1. Len(u) <= Len(w)
    BY <1>n, <1>5, <1>9
  <2> QED BY <1>9, <2>1, PrefixView
<1>17. ASSUME NEW m \in PuzzleMoves, IsPrefix(Append(u, m), w) PROVE m = l[n + 1]
  <2>1. PICK t \in Seq(PuzzleMoves) : t = Append(u, m)
    BY <1>14
  <2>2. Len(t) = a + n + 1 /\ t[a + n + 1] = m
    BY <1>14, <2>1
  <2>3. \A i \in 1..Len(t) : t[i] = w[i]
    <3>1. IsPrefix(t, w)
      BY <1>17, <2>1
    <3> QED BY ONLY <3>1, t \in Seq(PuzzleMoves), w \in Seq(PuzzleMoves), PrefixView
  <2>4. a + n + 1 \in 1..a + n + 1
    BY <1>n
  <2> QED BY <1>13, <2>2, <2>3, <2>4
<1> QED BY <1>1, <1>2, <1>4, <1>5, <1>9, <1>11, <1>12, <1>13, <1>15, <1>16, <1>17

\* The line of a puzzle that is served is not empty and legal.
LEMMA ServedFits ==
    ASSUME corpus \in Corpora, NEW p \in NextPuzzles
    PROVE  p \in AnyPuzzle /\ p # NoPuzzle /\ p.line # <<>> /\ Whole(p) \in Tree /\ p.fen \in Tree
<1>0. ASSUME NEW q \in AnyPuzzle, q.line # <<>>, Whole(q) \in Tree
      PROVE  q # NoPuzzle /\ q.fen \in Tree
  <2>1. q # NoPuzzle
    BY <1>0 DEF NoPuzzle
  <2>2. q.fen \in Seq(PuzzleMoves) /\ q.line \in Seq(PuzzleMoves)
    BY DEF AnyPuzzle
  <2>3. 0 < Len(q.line) /\ 0 \in Nat
    BY <1>0, <2>2, EmptySeq, LenProperties
  <2>4. After(q, 0) \in Tree
    BY <1>0, <2>3, WalkOn
  <2>5. SubSeq(q.line, 1, 0) = <<>>
    BY <2>2, SubSeqProperties, EmptySeq
  <2>6. After(q, 0) = q.fen
    BY <2>2, <2>5, ConcatEmptySeq DEF After
  <2> QED BY <2>1, <2>4, <2>6
<1>1. CASE p \in OfLichess
  <2>1. PICK q \in Payloads : Accepted(q) /\ p = [id |-> q.id, fen |-> Decision(q), line |-> q.solution]
    BY <1>1 DEF OfLichess
  <2>2. q.pgn \in Seq(PuzzleMoves) /\ q.solution \in Seq(PuzzleMoves) /\ q.ply \in Nat
    BY TrainerAssumption
  <2>3. Decision(q) \in Seq(PuzzleMoves)
    <3>1. PICK n \in Int : n = IF Len(q.pgn) > q.ply THEN q.ply + 1 ELSE Len(q.pgn)
      BY <2>2, LenProperties
    <3>2. n <= Len(q.pgn) /\ Len(q.pgn) \in Nat
      BY <2>2, <3>1, LenProperties
    <3>3. \A i \in 1..n : q.pgn[i] \in PuzzleMoves
      BY <2>2, <3>2, ElementOfSeq
    <3> QED BY <2>2, <3>1, <3>2, SubSeqProperties DEF Decision
  <2>4. p \in AnyPuzzle
    BY <2>1, <2>2, <2>3 DEF AnyPuzzle, PuzzleIds
  <2>5. p.line # <<>> /\ Whole(p) \in Tree
    BY <2>1 DEF Accepted, Whole
  <2> QED BY <1>0, <2>4, <2>5
<1>2. CASE Loads /\ p \in CorpusPicks
  <2>1. PICK e \in ToSet(corpus) :
           p = [id |-> e.id, fen |-> e.fen, line |-> IF e.line = <<>> THEN <<e.expected>> ELSE e.line]
    BY <1>2 DEF CorpusPicks
  <2>2. /\ e.fen \in Seq(PuzzleMoves) /\ e.line \in Seq(PuzzleMoves) /\ e.expected \in PuzzleMoves
        /\ Valid(e)
    BY <1>2, TrainerAssumption DEF Loads, ToSet
  <2>3. /\ <<e.expected>> \in Seq(PuzzleMoves) /\ <<e.expected>> # <<>>
        /\ e.fen \o <<e.expected>> = Append(e.fen, e.expected)
    BY <2>2
  <2>4. e.id \in PuzzleIds
    BY DEF PuzzleIds
  <2>5. p \in AnyPuzzle /\ p.line # <<>> /\ Whole(p) \in Tree
    <3>1. CASE e.line = <<>>
      <4>1. p = [id |-> e.id, fen |-> e.fen, line |-> <<e.expected>>]
        BY <2>1, <3>1
      <4> QED BY <2>2, <2>3, <2>4, <4>1 DEF AnyPuzzle, Whole, Valid
    <3>2. CASE e.line # <<>>
      <4>1. p = [id |-> e.id, fen |-> e.fen, line |-> e.line]
        BY <2>1, <3>2
      <4> QED BY <2>2, <2>4, <3>2, <4>1 DEF AnyPuzzle, Whole, Valid
    <3> QED BY <3>1, <3>2
  <2> QED BY <1>0, <2>5
<1> QED BY <1>1, <1>2 DEF NextPuzzles

\* What every step may use of the invariant.
LEMMA CheckMoves ==
    ASSUME NEW f \in [Checks -> CheckRecords], NEW k \in Checks, NEW c \in CheckRecords
    PROVE  /\ [f EXCEPT ![k] = c] \in [Checks -> CheckRecords]
           /\ \A j \in Checks : [f EXCEPT ![k] = c][j] = IF j = k THEN c ELSE f[j]
OBVIOUS

LEMMA Rested == NoPuzzle \in AnyPuzzle /\ NoCheck \in CheckRecords /\ CheckFits(NoCheck)
<1>1. NoPuzzle \in AnyPuzzle
  BY EmptySeq DEF NoPuzzle, AnyPuzzle, PuzzleIds
<1>2. NoCheck \in CheckRecords
  BY <1>1, TrainerAssumption DEF NoCheck, CheckRecords
<1> QED BY <1>1, <1>2 DEF CheckFits

\* A new sheet waits for its puzzle.
LEMMA ShownFits == SheetFits(Shown) /\ Shown.puzzle = NoPuzzle /\ ~Shown.open
<1>1. <<>> \in Tree /\ <<>> \in Seq(PuzzleMoves)
  BY TrainerAssumption, EmptySeq
<1>2. /\ Shown \in Sheets /\ Shown.puzzle = NoPuzzle /\ Shown.index = 0 /\ ~Shown.open
      /\ Shown.fen = <<>> /\ Shown.board = <<>> /\ ~Shown.crossed
  BY <1>1, Rested DEF Shown, Sheets
<1>3. IsPrefix(<<>>, <<>>)
  BY <1>1, PrefixSelf
<1>4. After(NoPuzzle, 0) = <<>>
  <2>1. SubSeq(<<>>, 1, 0) = <<>>
    BY SubSeqEmpty
  <2>2. <<>> \o <<>> = <<>>
    BY <1>1, ConcatEmptySeq
  <2> QED BY <2>1, <2>2 DEF After, NoPuzzle
<1> QED BY <1>2, <1>3, <1>4 DEF SheetFits

\* Opening and closing calls, and the state of the fetch, move nothing else.
LEMMA FlagsFit ==
    ASSUME NEW s, SheetFits(s), NEW b \in BOOLEAN
    PROVE  /\ SheetFits([s EXCEPT !.fetching = b])
           /\ SheetFits([s EXCEPT !.open = FALSE])
           /\ s.puzzle # NoPuzzle => SheetFits(Reset(s))
<1>1. s \in Sheets /\ s.fen \in Seq(PuzzleMoves)
  BY TrainerAssumption DEF SheetFits, Sheets
<1> DEFINE Same(t) == /\ t \in Sheets /\ t.puzzle = s.puzzle /\ t.index = s.index
                      /\ t.fen = s.fen /\ t.crossed = s.crossed
           t1 == [s EXCEPT !.fetching = b]
           t2 == [s EXCEPT !.open = FALSE]
           u3 == [s EXCEPT !.board = s.fen]
           t3 == [u3 EXCEPT !.open = TRUE]
<1>2. Same(t1) /\ t1.open = s.open /\ t1.board = s.board
  BY <1>1 DEF Sheets
<1>3. Same(t2) /\ t2.open = FALSE /\ t2.board = s.board
  BY <1>1 DEF Sheets
<1>4. Same(t3) /\ t3.board = s.fen
  <2>1. u3 \in Sheets /\ Same(u3) /\ u3.board = s.fen
    BY <1>1 DEF Sheets
  <2> HIDE DEF u3
  <2> QED BY <2>1 DEF Sheets
<1>5. Reset(s) = t3
  BY DEF Reset
<1>6. IsPrefix(s.fen, s.fen)
  BY <1>1, PrefixSelf
<1> HIDE DEF t1, t2, t3
<1>7. SheetFits(t1)
  BY <1>2 DEF SheetFits
<1>8. SheetFits(t2)
  BY <1>3 DEF SheetFits
<1>9. s.puzzle # NoPuzzle => SheetFits(t3)
  BY <1>4, <1>6 DEF SheetFits
<1> QED BY <1>5, <1>7, <1>8, <1>9 DEF t1, t2

\* A puzzle that arrives is shown at its decision.
LEMMA LoadedFits ==
    ASSUME corpus \in Corpora, NEW p \in NextPuzzles
    PROVE  /\ SheetFits(Loaded(p)) /\ Loaded(p).puzzle = p /\ p # NoPuzzle
           /\ Loaded(p).crossed = \E k \in Checks : checks[k].stage # "idle"
<1>1. p \in AnyPuzzle /\ p # NoPuzzle /\ p.line # <<>> /\ Whole(p) \in Tree /\ p.fen \in Tree
  BY ServedFits
<1>2. PICK b \in BOOLEAN : b = \E k \in Checks : checks[k].stage # "idle"
  OBVIOUS
<1> DEFINE u1 == [Shown EXCEPT !.puzzle = p]
           u2 == [u1 EXCEPT !.fen = p.fen]
           u3 == [u2 EXCEPT !.board = p.fen]
           u4 == [u3 EXCEPT !.open = TRUE]
           u5 == [u4 EXCEPT !.fetching = FALSE]
           s == [u5 EXCEPT !.crossed = b]
           At(t) == t \in Sheets /\ t.puzzle = p /\ t.index = 0
<1>3. Loaded(p) = s
  <2>1. Loaded(p) = [Shown EXCEPT !.puzzle = p, !.fen = p.fen, !.board = p.fen, !.open = TRUE,
                                  !.fetching = FALSE, !.crossed = b]
    BY <1>2 DEF Loaded
  <2> QED BY <2>1
<1>4. At(s) /\ s.fen = p.fen /\ s.board = p.fen /\ s.crossed = b
  <2>1. At(u1)
    <3>1. Shown \in Sheets /\ Shown.index = 0
      BY ShownFits DEF SheetFits, Shown
    <3> QED BY <1>1, <3>1 DEF Sheets
  <2> HIDE DEF u1
  <2>2. At(u2) /\ u2.fen = p.fen
    BY <1>1, <2>1 DEF Sheets
  <2> HIDE DEF u2
  <2>3. At(u3) /\ u3.fen = p.fen /\ u3.board = p.fen
    BY <1>1, <2>2 DEF Sheets
  <2> HIDE DEF u3
  <2>4. At(u4) /\ u4.fen = p.fen /\ u4.board = p.fen
    BY <2>3 DEF Sheets
  <2> HIDE DEF u4
  <2>5. At(u5) /\ u5.fen = p.fen /\ u5.board = p.fen
    BY <2>4 DEF Sheets
  <2> HIDE DEF u5
  <2> QED BY <2>5 DEF Sheets
<1> HIDE DEF s
<1>5. p.fen \in Seq(PuzzleMoves) /\ p.line \in Seq(PuzzleMoves)
  BY <1>1 DEF AnyPuzzle
<1>6. IsPrefix(p.fen, p.fen)
  BY <1>5, PrefixSelf
<1>7. After(p, 0) = p.fen
  <2>1. SubSeq(p.line, 1, 0) = <<>>
    BY SubSeqEmpty
  <2> QED BY <1>5, <2>1, ConcatEmptySeq DEF After
<1>8. SheetFits(s)
  BY <1>1, <1>4, <1>6, <1>7 DEF SheetFits
<1> QED BY <1>1, <1>2, <1>3, <1>4, <1>8

\* The invariant from its parts, after a step of the sheet alone or of one attempt.
LEMMA TrainerParts ==
    ASSUME TrainerInv, corpus' = corpus, hint' = hint, SheetFits(sheet'),
           checks' \in [Checks -> CheckRecords], \A k \in Checks : CheckFits(checks'[k]),
           sheet'.puzzle = NoPuzzle => \A k \in Checks : checks'[k] = NoCheck,
           ~sheet'.crossed =>
             /\ \A k \in Checks : AttemptFits(sheet', checks'[k])
             /\ \A j, k \in Checks : checks'[j] # NoCheck /\ checks'[k] # NoCheck => j = k
    PROVE  TrainerInv'
BY DEF TrainerInv

LEMMA FetchingOK == ASSUME TrainerInv, FetchNextPuzzle \/ FetchFails PROVE TrainerInv'
<1> DEFINE s == sheet
<1>1. SheetFits(s) /\ s \in Sheets
  BY DEF TrainerInv, SheetFits
<1>2. PICK b \in BOOLEAN, c \in BOOLEAN :
         sheet' = [s EXCEPT !.fetching = b, !.open = c] /\ (c => s.open)
  <2>1. CASE FetchNextPuzzle
    BY <2>1 DEF FetchNextPuzzle
  <2>2. CASE FetchFails
    <3>1. sheet' = [s EXCEPT !.fetching = FALSE, !.open = s.open] /\ s.open \in BOOLEAN
      BY <1>1, <2>2 DEF FetchFails, Sheets
    <3> QED BY <3>1
  <2> QED BY <2>1, <2>2
<1>3. UNCHANGED <<corpus, hint, checks>>
  BY DEF FetchNextPuzzle, FetchFails
<1>4. /\ sheet' \in Sheets /\ sheet'.puzzle = s.puzzle /\ sheet'.index = s.index /\ sheet'.fen = s.fen
      /\ sheet'.board = s.board /\ sheet'.crossed = s.crossed /\ sheet'.open = c
  <2> DEFINE u == [s EXCEPT !.fetching = b]
             v == [u EXCEPT !.open = c]
  <2>1. /\ u \in Sheets /\ u.puzzle = s.puzzle /\ u.index = s.index /\ u.fen = s.fen
        /\ u.board = s.board /\ u.crossed = s.crossed
    BY <1>1 DEF Sheets
  <2>2. sheet' = v
    BY <1>2
  <2> HIDE DEF u
  <2>3. /\ v \in Sheets /\ v.puzzle = u.puzzle /\ v.index = u.index /\ v.fen = u.fen
        /\ v.board = u.board /\ v.crossed = u.crossed /\ v.open = c
    BY <2>1 DEF Sheets
  <2> QED BY <2>1, <2>2, <2>3
<1>5. SheetFits(sheet')
  BY <1>1, <1>2, <1>4 DEF SheetFits
<1>6. ASSUME NEW k \in Checks, AttemptFits(sheet, checks[k]) PROVE AttemptFits(sheet', checks'[k])
  BY <1>2, <1>3, <1>4, <1>6 DEF AttemptFits
<1> QED BY <1>3, <1>4, <1>5, <1>6, TrainerParts DEF TrainerInv

LEMMA ArrivalOK == ASSUME TrainerInv, PuzzleArrives PROVE TrainerInv'
<1>1. PICK p \in NextPuzzles : sheet' = Loaded(p)
  BY DEF PuzzleArrives
<1>2. UNCHANGED <<corpus, hint, checks>> /\ corpus \in Corpora
  BY DEF PuzzleArrives, TrainerInv
<1>3. /\ SheetFits(sheet') /\ sheet'.puzzle # NoPuzzle
      /\ sheet'.crossed = \E k \in Checks : checks[k].stage # "idle"
  BY <1>1, <1>2, LoadedFits
<1>4. ASSUME ~sheet'.crossed, NEW k \in Checks PROVE checks'[k] = NoCheck
  BY <1>2, <1>3, <1>4 DEF TrainerInv, CheckFits
<1>5. ~sheet'.crossed =>
        /\ \A k \in Checks : AttemptFits(sheet', checks'[k])
        /\ \A j, k \in Checks : checks'[j] # NoCheck /\ checks'[k] # NoCheck => j = k
  BY <1>4 DEF AttemptFits
<1> QED BY <1>2, <1>3, <1>5, TrainerParts DEF TrainerInv

LEMMA ReopenOK == ASSUME TrainerInv, Reopen PROVE TrainerInv'
<1>1. /\ sheet' = Shown /\ UNCHANGED <<corpus, hint>>
      /\ checks' \in [Checks -> CheckRecords] /\ \A k \in Checks : checks'[k] = NoCheck
  BY Rested DEF Reopen
<1>2. \A k \in Checks : AttemptFits(sheet', checks'[k])
  BY <1>1 DEF AttemptFits
<1> QED BY <1>1, <1>2, ShownFits, Rested, TrainerParts

\* The move is on the board, which is locked.
LEMMA AttemptOK == ASSUME TrainerInv, NEW k \in Checks, HandleAttempt(k) PROVE TrainerInv'
<1> DEFINE s == sheet
<1>1. /\ SheetFits(s) /\ s \in Sheets /\ s.open /\ checks[k] = NoCheck /\ UNCHANGED <<corpus, hint>>
      /\ s.puzzle # NoPuzzle /\ s.board = s.fen /\ s.fen \in Seq(PuzzleMoves) /\ s.fen \in Tree
  BY TrainerAssumption DEF HandleAttempt, TrainerInv, SheetFits, Sheets
<1>2. PICK p \in Tree :
         /\ p # <<>> /\ Front(p) = s.board
         /\ sheet' = [s EXCEPT !.board = p, !.open = FALSE]
         /\ checks' = [checks EXCEPT ![k] =
                [stage |-> "verify", puzzle |-> s.puzzle, fen |-> s.fen, move |-> Last(p)]]
  BY DEF HandleAttempt
<1>3. p \in Seq(PuzzleMoves) /\ Last(p) \in PuzzleMoves /\ Append(s.fen, Last(p)) = p
  BY <1>1, <1>2, TrainerAssumption, FrontLast
<1> DEFINE c == [stage |-> "verify", puzzle |-> s.puzzle, fen |-> s.fen, move |-> Last(p)]
<1>4. CheckFits(c) /\ c.stage = "verify" /\ c.puzzle = s.puzzle /\ c.fen = s.fen /\ c.move = Last(p)
  <2>1. c \in CheckRecords
    BY <1>1, <1>3 DEF CheckRecords, Sheets
  <2> QED BY <1>1, <1>2, <1>3, <2>1 DEF CheckFits
<1>5. /\ checks' \in [Checks -> CheckRecords]
      /\ \A j \in Checks : checks'[j] = IF j = k THEN c ELSE checks[j]
  <2>1. checks \in [Checks -> CheckRecords] /\ c \in CheckRecords
    BY <1>4 DEF TrainerInv, CheckFits
  <2>2. checks' = [checks EXCEPT ![k] = c]
    BY <1>2
  <2> HIDE DEF c
  <2> QED BY <2>1, <2>2, CheckMoves
<1> HIDE DEF c
<1>6. /\ sheet' \in Sheets /\ sheet'.puzzle = s.puzzle /\ sheet'.index = s.index /\ sheet'.fen = s.fen
      /\ sheet'.board = p /\ sheet'.crossed = s.crossed /\ sheet'.open = FALSE
  <2> DEFINE u == [s EXCEPT !.board = p]
             v == [u EXCEPT !.open = FALSE]
  <2>1. /\ u \in Sheets /\ u.puzzle = s.puzzle /\ u.index = s.index /\ u.fen = s.fen
        /\ u.board = p /\ u.crossed = s.crossed
    BY <1>1 DEF Sheets
  <2>2. sheet' = v
    BY <1>2
  <2> HIDE DEF u
  <2>3. /\ v \in Sheets /\ v.puzzle = u.puzzle /\ v.index = u.index /\ v.fen = u.fen
        /\ v.board = u.board /\ v.crossed = u.crossed /\ v.open = FALSE
    BY <2>1 DEF Sheets
  <2> QED BY <2>1, <2>2, <2>3
<1>7. SheetFits(sheet')
  <2>1. IsPrefix(s.fen, s.fen)
    BY <1>1, PrefixSelf
  <2>2. IsPrefix(s.fen, p)
    BY <1>1, <1>3, <2>1, PrefixAppend
  <2> QED BY <1>1, <1>6, <2>2 DEF SheetFits
<1>8. ASSUME ~s.crossed, NEW j \in Checks, j # k PROVE checks[j] = NoCheck
  BY <1>1, <1>8 DEF TrainerInv, AttemptFits
<1>9. ~sheet'.crossed =>
        /\ \A j \in Checks : AttemptFits(sheet', checks'[j])
        /\ \A i, j \in Checks : checks'[i] # NoCheck /\ checks'[j] # NoCheck => i = j
  <2> SUFFICES ASSUME ~sheet'.crossed
               PROVE  /\ \A j \in Checks : AttemptFits(sheet', checks'[j])
                      /\ \A i, j \in Checks : checks'[i] # NoCheck /\ checks'[j] # NoCheck => i = j
    OBVIOUS
  <2>1. AttemptFits(sheet', c)
    BY <1>3, <1>4, <1>6 DEF AttemptFits
  <2>2. \A j \in Checks : j # k => checks'[j] = NoCheck
    BY <1>5, <1>6, <1>8
  <2>3. \A j \in Checks : AttemptFits(sheet', checks'[j])
    BY <1>5, <2>1, <2>2 DEF AttemptFits
  <2> QED BY <2>2, <2>3
<1>10. \A j \in Checks : CheckFits(checks'[j])
  BY <1>4, <1>5 DEF TrainerInv
<1> QED BY <1>1, <1>5, <1>6, <1>7, <1>9, <1>10, TrainerParts

\* The move is the line's: the reply leads on in it; or it is worth the credit.
LEMMA ApprovedOK == ASSUME TrainerInv, NEW k \in Checks, Approved(k) PROVE TrainerInv'
<1>1. PICK s \in Sheets : s = sheet
  BY DEF TrainerInv, SheetFits
<1>2. PICK c \in CheckRecords : c = checks[k]
  BY DEF TrainerInv
<1>3. PICK p \in AnyPuzzle : p = s.puzzle
  BY DEF Sheets
<1>4. PICK i \in Nat : i = s.index
  BY DEF Sheets
<1>5. /\ SheetFits(s) /\ CheckFits(c) /\ c.stage = "verify" /\ c # NoCheck /\ IsCorrect(c)
      /\ p # NoPuzzle /\ UNCHANGED <<corpus, hint>>
  <2>1. SheetFits(s) /\ CheckFits(c) /\ (s.puzzle = NoPuzzle => c = NoCheck)
    BY <1>1, <1>2 DEF TrainerInv
  <2>2. c.stage = "verify" /\ IsCorrect(c) /\ UNCHANGED <<corpus, hint>>
    BY <1>2 DEF Approved
  <2> QED BY <1>3, <2>1, <2>2 DEF NoCheck
<1>6. PICK r : r = Append(s.board, p.line[i + 2])
  OBVIOUS
<1>7. IF FollowsLine(p.line, i, c.move) /\ r \in Tree
      THEN /\ sheet' = [s EXCEPT !.index = @ + 2, !.board = r, !.fen = r, !.open = TRUE]
           /\ checks' = [checks EXCEPT ![k] = NoCheck]
      ELSE checks' = [checks EXCEPT ![k].stage = "solve"] /\ sheet' = s
  BY <1>1, <1>2, <1>3, <1>4, <1>6 DEF Approved
<1>8. ASSUME ~s.crossed, FollowsLine(p.line, i, c.move)
      PROVE  r = After(p, i + 2) /\ r \in Tree
  <2>1. Whole(p) \in Tree /\ s.fen = After(p, i) /\ s.board = Append(s.fen, c.move)
    <3>1. AttemptFits(s, c)
      BY <1>1, <1>2, <1>8 DEF TrainerInv
    <3>2. s.board = Append(c.fen, c.move) /\ c.fen = s.fen
      BY <1>5, <3>1 DEF AttemptFits
    <3> QED BY <1>3, <1>4, <1>5, <1>8, <3>2 DEF SheetFits
  <2>2. PICK n \in Nat : n = Len(p.line)
    BY LenProperties DEF AnyPuzzle
  <2>3. i + 2 < n /\ c.move = p.line[i + 1]
    BY <1>8, <2>2 DEF FollowsLine
  <2>4. i < n /\ i + 1 < n /\ i + 1 \in Nat /\ i + 1 + 1 = i + 2
    BY <2>3
  <2>5. Append(After(p, i), p.line[i + 1]) = After(p, i + 1)
    BY <2>1, <2>2, <2>4, WalkOn
  <2>6. PICK j \in Nat : j = i + 1 /\ j < Len(p.line) /\ j + 1 = i + 2
    BY <2>2, <2>4
  <2>7. Append(After(p, j), p.line[j + 1]) = After(p, j + 1) /\ After(p, j + 1) \in Tree
    BY <2>1, <2>6, WalkOn
  <2> QED BY <1>6, <2>1, <2>3, <2>5, <2>6, <2>7
<1>c. checks \in [Checks -> CheckRecords] /\ \A j \in Checks : CheckFits(checks[j])
  BY DEF TrainerInv
<1>9. CASE FollowsLine(p.line, i, c.move) /\ r \in Tree
  <2>1. PICK m \in Nat : m = i + 2
    OBVIOUS
  <2>2. /\ sheet' \in Sheets /\ sheet'.puzzle = p /\ sheet'.index = m /\ sheet'.fen = r
        /\ sheet'.board = r /\ sheet'.crossed = s.crossed /\ sheet'.open = TRUE
    <3> DEFINE u1 == [s EXCEPT !.index = m]
               u2 == [u1 EXCEPT !.board = r]
               u3 == [u2 EXCEPT !.fen = r]
               u4 == [u3 EXCEPT !.open = TRUE]
    <3>1. sheet' = u4
      <4>1. sheet' = [s EXCEPT !.index = m, !.board = r, !.fen = r, !.open = TRUE]
        BY <1>4, <1>7, <1>9, <2>1
      <4> QED BY <4>1
    <3>2. u1 \in Sheets /\ u1.puzzle = p /\ u1.index = m /\ u1.crossed = s.crossed
      BY <1>3 DEF Sheets
    <3> HIDE DEF u1
    <3>3. u2 \in Sheets /\ u2.puzzle = p /\ u2.index = m /\ u2.crossed = s.crossed /\ u2.board = r
      BY <1>9, <3>2 DEF Sheets
    <3> HIDE DEF u2
    <3>4. /\ u3 \in Sheets /\ u3.puzzle = p /\ u3.index = m /\ u3.crossed = s.crossed
          /\ u3.board = r /\ u3.fen = r
      BY <1>9, <3>3 DEF Sheets
    <3> HIDE DEF u3
    <3>5. /\ u4 \in Sheets /\ u4.puzzle = p /\ u4.index = m /\ u4.crossed = s.crossed
          /\ u4.board = r /\ u4.fen = r /\ u4.open = TRUE
      BY <3>4 DEF Sheets
    <3> HIDE DEF u4
    <3> QED BY <3>1, <3>5
  <2>3. r \in Seq(PuzzleMoves)
    BY <1>9, TrainerAssumption
  <2>4. IsPrefix(r, r)
    BY <2>3, PrefixSelf
  <2>5. m < Len(p.line)
    BY <1>9, <2>1 DEF FollowsLine
  <2>6. p.line # <<>> /\ Whole(p) \in Tree
    BY <1>3, <1>5 DEF SheetFits
  <2>7. ~s.crossed => r = After(p, m)
    BY <1>8, <1>9, <2>1
  <2>8. SheetFits(sheet')
    BY <1>5, <2>2, <2>4, <2>5, <2>6, <2>7 DEF SheetFits
  <2>9. /\ checks' \in [Checks -> CheckRecords]
        /\ \A j \in Checks : checks'[j] = IF j = k THEN NoCheck ELSE checks[j]
    BY <1>7, <1>9, <1>c, Rested, CheckMoves
  <2>10. \A j \in Checks : CheckFits(checks'[j])
    BY <1>c, <2>9, Rested
  <2>11. ASSUME ~sheet'.crossed, NEW j \in Checks PROVE checks'[j] = NoCheck
    <3>1. ~sheet.crossed
      BY <1>1, <2>2, <2>11
    <3>2. checks[j] # NoCheck => j = k
      BY <1>2, <1>5, <3>1 DEF TrainerInv
    <3> QED BY <2>9, <3>2
  <2>12. ~sheet'.crossed =>
           /\ \A j \in Checks : AttemptFits(sheet', checks'[j])
           /\ \A j, l \in Checks : checks'[j] # NoCheck /\ checks'[l] # NoCheck => j = l
    BY <2>11 DEF AttemptFits
  <2> QED BY <1>5, <2>2, <2>8, <2>9, <2>10, <2>12, TrainerParts
<1>10. CASE ~(FollowsLine(p.line, i, c.move) /\ r \in Tree)
  <2> DEFINE d == [c EXCEPT !.stage = "solve"]
  <2>1. /\ d \in CheckRecords /\ d.stage = "solve" /\ d.puzzle = c.puzzle /\ d.fen = c.fen
        /\ d.move = c.move
    BY DEF CheckRecords
  <2>2. checks' = [checks EXCEPT ![k] = d] /\ sheet' = s
    <3>1. checks' = [checks EXCEPT ![k].stage = "solve"] /\ sheet' = s
      BY <1>7, <1>10
    <3> QED BY <1>2, <3>1
  <2> HIDE DEF d
  <2>3. /\ checks' \in [Checks -> CheckRecords]
        /\ \A j \in Checks : checks'[j] = IF j = k THEN d ELSE checks[j]
    BY <1>c, <2>1, <2>2, CheckMoves
  <2>4. d # NoCheck /\ CheckFits(d)
    BY <1>5, <2>1 DEF CheckFits, NoCheck
  <2>5. \A j \in Checks : CheckFits(checks'[j])
    BY <1>c, <2>3, <2>4
  <2>6. ~s.crossed =>
          /\ \A j \in Checks : AttemptFits(s, checks'[j])
          /\ \A j, l \in Checks : checks'[j] # NoCheck /\ checks'[l] # NoCheck => j = l
    <3> SUFFICES ASSUME ~s.crossed
                 PROVE  /\ \A j \in Checks : AttemptFits(s, checks'[j])
                        /\ \A j, l \in Checks : checks'[j] # NoCheck /\ checks'[l] # NoCheck => j = l
      OBVIOUS
    <3>1. /\ \A j \in Checks : AttemptFits(s, checks[j])
          /\ \A j, l \in Checks : checks[j] # NoCheck /\ checks[l] # NoCheck => j = l
      BY <1>1 DEF TrainerInv
    <3>2. ~FollowsLine(p.line, i, c.move) /\ Append(c.fen, c.move) \in Sound
      BY <1>5, <1>8, <1>10 DEF IsCorrect
    <3>3. AttemptFits(s, c)
      BY <1>2, <3>1
    <3>4. AttemptFits(s, d)
      BY <1>3, <1>4, <1>5, <2>1, <3>2, <3>3 DEF AttemptFits
    <3> QED BY <1>2, <1>5, <2>3, <3>1, <3>4
  <2>7. SheetFits(sheet') /\ sheet'.puzzle # NoPuzzle
    BY <1>3, <1>5, <2>2
  <2> QED BY <1>5, <2>2, <2>3, <2>5, <2>6, <2>7, TrainerParts
<1> QED BY <1>9, <1>10

LEMMA JudgedOK == ASSUME TrainerInv, NEW k \in Checks, NotApproved(k) \/ Credited(k) PROVE TrainerInv'
<1>1. /\ checks[k] # NoCheck /\ UNCHANGED <<corpus, hint>>
      /\ checks' = [checks EXCEPT ![k] = NoCheck]
      /\ sheet' = sheet \/ sheet' = Reset(sheet)
  BY DEF NotApproved, Credited, NoCheck
<1>2. SheetFits(sheet) /\ sheet.puzzle # NoPuzzle
  BY <1>1 DEF TrainerInv
<1>3. PICK s \in Sheets : s = sheet
  BY <1>2 DEF SheetFits
<1>4. Reset(s).puzzle = s.puzzle /\ Reset(s).crossed = s.crossed
  BY DEF Reset, Sheets
<1>5. SheetFits(Reset(s))
  BY <1>2, <1>3, FlagsFit
<1>6. SheetFits(sheet') /\ sheet'.puzzle # NoPuzzle /\ sheet'.crossed = sheet.crossed
  BY <1>1, <1>2, <1>3, <1>4, <1>5
<1>7. /\ checks' \in [Checks -> CheckRecords]
      /\ \A j \in Checks : checks'[j] = IF j = k THEN NoCheck ELSE checks[j]
  BY <1>1, Rested, CheckMoves DEF TrainerInv
<1>8. \A j \in Checks : CheckFits(checks'[j])
  BY <1>7, Rested DEF TrainerInv
<1>9. ASSUME ~sheet'.crossed, NEW j \in Checks PROVE checks'[j] = NoCheck
  BY <1>1, <1>6, <1>7, <1>9 DEF TrainerInv
<1>10. ~sheet'.crossed =>
         /\ \A j \in Checks : AttemptFits(sheet', checks'[j])
         /\ \A j, l \in Checks : checks'[j] # NoCheck /\ checks'[l] # NoCheck => j = l
  BY <1>9 DEF AttemptFits
<1> QED BY <1>1, <1>6, <1>7, <1>8, <1>10, TrainerParts

\* The inductive invariant of the trainer: while the puzzle on the sheet did not
\* cross with a check, its position is the line as far as it was walked, and the one
\* attempt under way is made from there.
THEOREM TrainerInvariance == TrainerSpec => []TrainerInv
<1>1. TrainerInit => TrainerInv
  <2> SUFFICES ASSUME TrainerInit PROVE TrainerInv
    OBVIOUS
  <2>1. /\ corpus \in Corpora /\ hint \in Hints /\ sheet = Shown
        /\ checks \in [Checks -> CheckRecords] /\ \A k \in Checks : checks[k] = NoCheck
    BY Rested DEF TrainerInit
  <2>2. SheetFits(sheet)
    BY <2>1, ShownFits
  <2> QED BY <2>1, <2>2, Rested DEF TrainerInv, AttemptFits
<1>2. TrainerInv /\ [TrainerNext]_trainerVars => TrainerInv'
  <2> SUFFICES ASSUME TrainerInv, [TrainerNext]_trainerVars PROVE TrainerInv'
    OBVIOUS
  <2>1. CASE TrainerNext
    BY <2>1, FetchingOK, ArrivalOK, ReopenOK, AttemptOK, ApprovedOK, JudgedOK DEF TrainerNext
  <2>2. CASE UNCHANGED trainerVars
    BY <2>2 DEF trainerVars, TrainerInv, SheetFits, CheckFits, AttemptFits
  <2> QED BY <2>1, <2>2
<1> QED BY <1>1, <1>2, PTL DEF TrainerSpec

\* What is paid for left the line with a sound move, or was the last move of the
\* solver in it.
LEMMA CreditIsWalked == ASSUME TrainerInv PROVE CreditNeedsWalk
<1> SUFFICES ASSUME ~sheet.crossed, NEW k \in Checks, checks[k].stage = "solve"
             PROVE  LET c == checks[k]
                        walked == Append(c.fen, c.move)
                    IN  /\ walked \in Sound /\ IsPrefix(c.fen, Whole(c.puzzle))
                        /\ IsPrefix(walked, Whole(c.puzzle)) => Len(walked) >= Len(Whole(c.puzzle)) - 1
  BY DEF CreditNeedsWalk
<1>1. PICK s \in Sheets : s = sheet
  BY DEF TrainerInv, SheetFits
<1>2. PICK c \in CheckRecords : c = checks[k]
  BY DEF TrainerInv
<1>3. PICK p \in AnyPuzzle : p = s.puzzle
  BY DEF Sheets
<1>4. PICK i \in Nat : i = s.index
  BY DEF Sheets
<1>5. c # NoCheck /\ c.stage = "solve"
  BY <1>2 DEF NoCheck
<1>6. /\ c.puzzle = p /\ c.fen = s.fen /\ c.move \in PuzzleMoves
      /\ Append(c.fen, c.move) \in Sound /\ ~FollowsLine(p.line, i, c.move)
  <2>1. AttemptFits(s, c) /\ CheckFits(c)
    BY <1>1, <1>2 DEF TrainerInv
  <2> QED BY <1>3, <1>4, <1>5, <2>1 DEF AttemptFits, CheckFits
<1>7. /\ p.line # <<>> /\ Whole(p) \in Tree /\ c.fen = After(p, i)
      /\ i = 0 \/ i < Len(p.line)
  <2>1. SheetFits(s) /\ p # NoPuzzle
    BY <1>1, <1>2, <1>3, <1>5 DEF TrainerInv
  <2> QED BY <1>1, <1>3, <1>4, <1>6, <2>1 DEF SheetFits
<1>8. PICK n \in Nat : n = Len(p.line)
  BY LenProperties DEF AnyPuzzle
<1>9. i < n
  <2>1. p.line \in Seq(PuzzleMoves)
    BY DEF AnyPuzzle
  <2>2. n # 0
    BY <1>7, <1>8, <2>1, EmptySeq
  <2> QED BY <1>7, <1>8, <2>2
<1>10. PICK a \in Nat : a = Len(p.fen)
  BY LenProperties DEF AnyPuzzle
<1>11. /\ IsPrefix(c.fen, Whole(p)) /\ Len(c.fen) = a + i /\ Len(Whole(p)) = a + n
       /\ IsPrefix(Append(c.fen, c.move), Whole(p)) => c.move = p.line[i + 1]
  <2>1. i < Len(p.line)
    BY <1>8, <1>9
  <2>2. /\ IsPrefix(After(p, i), Whole(p)) /\ Len(After(p, i)) = Len(p.fen) + i
        /\ Len(Whole(p)) = Len(p.fen) + Len(p.line)
        /\ \A m \in PuzzleMoves : IsPrefix(Append(After(p, i), m), Whole(p)) => m = p.line[i + 1]
    BY ONLY <1>7, <2>1, p \in AnyPuzzle, i \in Nat, WalkOn
  <2> QED BY <1>6, <1>7, <1>8, <1>10, <2>2
<1>12. Len(Append(c.fen, c.move)) = a + i + 1
  <2>1. c.fen \in Seq(PuzzleMoves)
    BY TrainerAssumption DEF CheckRecords
  <2> QED BY <1>6, <1>11, <2>1, AppendProperties
<1>13. IsPrefix(Append(c.fen, c.move), Whole(p)) => a + i + 1 >= a + n - 1
  <2> SUFFICES ASSUME IsPrefix(Append(c.fen, c.move), Whole(p)) PROVE a + i + 1 >= a + n - 1
    OBVIOUS
  <2>1. ~(n >= 3 /\ i + 2 < n)
    BY <1>6, <1>8, <1>11 DEF FollowsLine
  <2> QED BY <1>9, <2>1
<1> QED BY <1>2, <1>6, <1>11, <1>12, <1>13

\* TrainerSafe: the line of a puzzle that is served is legal, the board shows the
\* position that is sent with the move, and a credit is asked for at the end of the
\* line or for a sound move off it, whatever Lichess and the corpus hold.
THEOREM TrainerIsSafe == TrainerSpec => []TrainerSafe
<1>1. TrainerInv => TrainerTypeOK
  <2> SUFFICES ASSUME TrainerInv PROVE TrainerTypeOK
    OBVIOUS
  <2>1. SheetFits(sheet) /\ sheet \in Sheets
    BY DEF TrainerInv, SheetFits
  <2>2. /\ {sheet.fen, sheet.board} \subseteq Tree
        /\ sheet.index = 0 \/ sheet.index < Len(sheet.puzzle.line)
        /\ sheet.puzzle = NoPuzzle => ~sheet.open
    BY <2>1 DEF SheetFits, Sheets
  <2>3. ASSUME NEW k \in Checks
        PROVE  /\ checks[k].stage \in {"idle", "verify", "solve"}
               /\ checks[k].stage = "idle" <=> checks[k].puzzle = NoPuzzle
               /\ checks[k].stage # "idle" => Append(checks[k].fen, checks[k].move) \in Tree
    <3>1. PICK c \in CheckRecords : c = checks[k]
      BY DEF TrainerInv
    <3>2. CheckFits(c)
      BY <3>1 DEF TrainerInv
    <3>3. CASE c = NoCheck
      BY <3>1, <3>3 DEF NoCheck
    <3>4. CASE c # NoCheck
      BY <3>1, <3>2, <3>4 DEF CheckFits, CheckRecords
    <3> QED BY <3>3, <3>4
  <2> QED BY <2>2, <2>3 DEF TrainerTypeOK, TrainerInv
<1>2. TrainerInv => ServedLegal /\ BoardIsWalk
  BY DEF TrainerInv, SheetFits, ServedLegal, BoardIsWalk, After
<1> QED BY <1>1, <1>2, CreditIsWalked, TrainerInvariance, PTL DEF TrainerSafe

\* ProgressKept: no answer takes back what has been found of the puzzle on the board.
THEOREM ProgressStays == TrainerSpec => ProgressKept
<1>1. TrainerInv /\ [TrainerNext]_trainerVars
        => [sheet'.fetching = sheet.fetching /\ sheet'.puzzle # NoPuzzle
              => sheet'.index >= sheet.index /\ IsPrefix(sheet.fen, sheet'.fen)]_trainerVars
  <2> SUFFICES ASSUME TrainerInv, TrainerNext,
                      sheet'.fetching = sheet.fetching, sheet'.puzzle # NoPuzzle
               PROVE  sheet'.index >= sheet.index /\ IsPrefix(sheet.fen, sheet'.fen)
    OBVIOUS
  <2>1. PICK s \in Sheets : s = sheet
    BY DEF TrainerInv, SheetFits
  <2>2. PICK i \in Nat, f \in Seq(PuzzleMoves), b \in Seq(PuzzleMoves) :
           i = s.index /\ f = s.fen /\ b = s.board /\ IsPrefix(f, b) /\ IsPrefix(f, f)
    <3>1. s.index \in Nat /\ s.fen \in Seq(PuzzleMoves) /\ s.board \in Seq(PuzzleMoves)
      BY TrainerAssumption DEF Sheets
    <3>2. IsPrefix(s.fen, s.board)
      BY <2>1 DEF TrainerInv, SheetFits
    <3> QED BY <3>1, <3>2, PrefixSelf
  <2>3. CASE sheet'.index = s.index /\ sheet'.fen = s.fen
    BY <2>1, <2>2, <2>3
  <2>4. CASE FetchNextPuzzle \/ FetchFails \/ PuzzleArrives \/ Reopen
    <3>1. CASE FetchNextPuzzle
      <4>1. s.fetching = FALSE /\ sheet' = [s EXCEPT !.fetching = TRUE, !.open = FALSE]
        BY <2>1, <3>1 DEF FetchNextPuzzle, Sheets
      <4>2. sheet'.fetching = TRUE
        BY <4>1 DEF Sheets
      <4> QED BY <2>1, <4>1, <4>2
    <3>2. CASE FetchFails
      <4>1. s.fetching = TRUE /\ sheet' = [s EXCEPT !.fetching = FALSE]
        BY <2>1, <3>2 DEF FetchFails, Sheets
      <4>2. sheet'.fetching = FALSE
        BY <4>1 DEF Sheets
      <4> QED BY <2>1, <4>1, <4>2
    <3>3. CASE PuzzleArrives
      <4>1. PICK p \in NextPuzzles : s.fetching = TRUE /\ sheet' = Loaded(p)
        BY <2>1, <3>3 DEF PuzzleArrives, Sheets
      <4>2. sheet'.fetching = FALSE
        BY <4>1 DEF Loaded, Shown
      <4> QED BY <2>1, <4>1, <4>2
    <3>4. CASE Reopen
      BY <3>4 DEF Reopen, Shown
    <3> QED BY <2>4, <3>1, <3>2, <3>3, <3>4
  <2>5. ASSUME NEW k \in Checks, HandleAttempt(k) \/ NotApproved(k) \/ Credited(k)
        PROVE  sheet'.index = s.index /\ sheet'.fen = s.fen
    <3>1. CASE HandleAttempt(k)
      <4>1. PICK p \in Tree : sheet' = [s EXCEPT !.board = p, !.open = FALSE]
        BY <2>1, <3>1 DEF HandleAttempt
      <4> QED BY <4>1 DEF Sheets
    <3>2. CASE NotApproved(k)
      <4>1. sheet' = [s EXCEPT !.board = s.fen, !.open = TRUE]
        BY <2>1, <3>2 DEF NotApproved, Reset
      <4> QED BY <4>1 DEF Sheets
    <3>3. CASE Credited(k)
      BY <2>1, <3>3 DEF Credited
    <3> QED BY <2>5, <3>1, <3>2, <3>3
  <2>6. ASSUME NEW k \in Checks, Approved(k)
        PROVE  sheet'.index >= i /\ IsPrefix(f, sheet'.fen)
    <3>1. CASE sheet' = s
      BY <2>2, <3>1
    <3>2. CASE sheet' # s
      <4>1. PICK p \in AnyPuzzle : p = s.puzzle
        BY DEF Sheets
      <4>2. PICK r \in Tree : r = Append(b, p.line[i + 2])
                              /\ sheet' = [s EXCEPT !.index = @ + 2, !.board = r, !.fen = r, !.open = TRUE]
                              /\ i + 2 < Len(p.line)
        BY <2>1, <2>2, <2>6, <3>2, <4>1 DEF Approved, FollowsLine
      <4>3. sheet'.index = i + 2 /\ sheet'.fen = r
        BY <2>2, <4>2 DEF Sheets
      <4>4. p.line[i + 2] \in PuzzleMoves
        <5>1. PICK n \in Nat, l \in Seq(PuzzleMoves) : l = p.line /\ n = Len(l)
          BY LenProperties DEF AnyPuzzle
        <5>2. i + 2 \in 1..n
          BY <4>2, <5>1
        <5> QED BY <5>1, <5>2, ElementOfSeq
      <4>5. IsPrefix(f, r)
        BY <2>2, <4>2, <4>4, PrefixAppend
      <4> QED BY <4>3, <4>5
    <3> QED BY <3>1, <3>2
  <2> QED BY <2>1, <2>2, <2>3, <2>4, <2>5, <2>6 DEF TrainerNext
<1> QED BY <1>1, TrainerInvariance, PTL DEF TrainerSpec, ProgressKept
=============================================================================
