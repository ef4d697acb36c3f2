---------------------------- MODULE Coach_proofs ----------------------------
(***************************************************************************)
(* Proofs about what the coach says: the retry loops and gates of one      *)
(* answer (CoachReply), the stream a client watches (ChatStream), the      *)
(* grade and the hint of a move (LiveMove), the metering of one call of    *)
(* the language model (LlmCall), the texts of reviews and study plans      *)
(* (CoachTexts), and the rating and the next step after a game             *)
(* (CoachPolicy).                                                          *)
(***************************************************************************)
EXTENDS CoachReply, ChatStream, LiveMove, LlmCall, CoachTexts, CoachPolicy,
        FiniteSetTheorems, SequenceTheorems, WellFoundedInduction, TLAPS

-----------------------------------------------------------------------------
(* CoachReply: whatever the model answers, one vetted reply *)

\* What the handler knows of the text it holds: the model's has passed the
\* pipeline's gates, the other one is the builder's for this very signal; and a
\* request whose answer the firewall blocked is never again at the model.
Vetted ==
    /\ at = "new" => tries = 0 /\ ~leaked
    /\ at = "asking" => tries <= MaxRetries /\ ~leaked
    /\ at = "boundary" => IF byModel THEN Accepted(reply) ELSE reply = FallbackText

CoachInv == CoachTypeOK /\ at # "error" /\ Vetted

USE CoachReplyAssumption

\* The deterministic text of every signal, route and style passes the boundary.
LEMMA FallbackPasses ==
    ASSUME signal \in Signals, route \in Routes, style \in Styles
    PROVE  Boundary(FallbackText) /\ FallbackText \subseteq AllMarks
BY DEF Signals, Routes, Styles, Boundary, NegativeGate, StructureGate, SemanticGate,
       FallbackText, ChatFallback, LiveFallback, SafeExplanation, EvalSentence, AllMarks

\* The initial state.
LEMMA CoachStarts == CoachInit => CoachInv
<1> SUFFICES ASSUME CoachInit PROVE CoachInv
    OBVIOUS
<1>1. signal \in Signals
    BY SMT DEF CoachInit, Signals
<1>2. Vetted /\ at # "error"
    BY DEF CoachInit, Vetted
<1>3. CoachTypeOK
    <2>1. tries \in 0..(MaxRetries + 1) /\ counted \in 0..1 /\ exchanges \in 0..1
        BY DEF CoachInit
    <2>2. (counted = 1 \/ exchanges = 1) => at = "served" /\ route = "chat"
        BY DEF CoachInit
    <2>3. forced \in BOOLEAN /\ byModel \in BOOLEAN /\ leaked \in BOOLEAN /\ ~forced
        BY DEF CoachInit
    <2>4. route \in Routes /\ style \in Styles /\ reply \subseteq AllMarks
          /\ at \in {"new", "asking", "boundary", "fallback", "served", "error"}
        BY DEF CoachInit, Routes, Styles
    <2> QED BY <1>1, <2>1, <2>2, <2>3, <2>4 DEF CoachTypeOK
<1> QED BY <1>1, <1>2, <1>3 DEF CoachInv

\* Every step keeps the invariant.
LEMMA CoachStep == CoachInv /\ [CoachNext]_coachVars => CoachInv'
<1> SUFFICES ASSUME CoachInv, [CoachNext]_coachVars PROVE CoachInv'
    OBVIOUS
<1> USE DEF CoachInv, CoachTypeOK
<1>1. CASE TurnArrives
    <2>1. forced' \in BOOLEAN /\ (forced' => route' = "live")
        BY <1>1, Zenon DEF TurnArrives
    <2>2. (forced' = TRUE /\ at' = "fallback") \/ (forced' = FALSE /\ at' = "asking")
        BY <1>1, <2>1 DEF TurnArrives
    <2> QED BY <1>1, <2>1, <2>2 DEF TurnArrives, Vetted, effects
<1>2. CASE NoAnswer
    BY <1>2 DEF NoAnswer, Goto, AskAgain, requestVars, effects, Vetted
<1>3. ASSUME NEW t \in Texts, Answers(t) PROVE CoachInv'
    <2> t \subseteq AllMarks
        BY DEF Texts
    <2>1. CASE Firewalled(t)
        BY <1>3, <2>1 DEF Answers, Weigh, Block, Goto, requestVars, effects, Vetted
    <2>2. CASE ~Firewalled(t)
        <3>1. UNCHANGED leaked /\ Judge(t) /\ at = "asking" /\ tries' = tries + 1
            BY <1>3, <2>2 DEF Answers, Weigh
        <3>2. CASE AskAgain
            BY <1>3, <3>1, <3>2 DEF Answers, AskAgain, Goto, requestVars, effects, Vetted
        <3>3. CASE Ship(t) /\ Accepted(t)
            <4>1. Accepted(t)'
                BY <1>3, <3>3 DEF Answers, requestVars, Accepted, NegativeGate, StructureGate,
                                  SemanticGate
            <4> QED BY <1>3, <3>1, <3>3, <4>1 DEF Answers, Ship, Goto, requestVars, effects,
                       Vetted, Accepted, NegativeGate, StructureGate, SemanticGate
        <3> QED BY <3>1, <3>2, <3>3 DEF Judge
    <2> QED BY <2>1, <2>2
<1>4. CASE FallBack
    <2>1. FallbackText' = FallbackText
        BY <1>4 DEF FallBack, requestVars, FallbackText, ChatFallback, LiveFallback,
                    SafeExplanation, EvalSentence
    <2> QED BY <1>4, <2>1, FallbackPasses DEF FallBack, Goto, requestVars, effects, Vetted
<1>5. CASE Validate
    <2>1. ~byModel /\ at = "boundary" => Boundary(reply)
        BY FallbackPasses DEF Vetted
    <2> QED BY <1>5, <2>1 DEF Validate, Goto, requestVars, effects, Vetted
<1>6. CASE UNCHANGED coachVars
    BY <1>6 DEF coachVars, Vetted, Accepted, NegativeGate, StructureGate, SemanticGate,
                FallbackText, ChatFallback, LiveFallback, SafeExplanation, EvalSentence
<1> QED BY <1>1, <1>2, <1>3, <1>4, <1>5, <1>6 DEF CoachNext, CoachWork

\* Types, and what the handler knows of the text it holds, whatever the model
\* answers and however often it fails, for any set of marks and any number of
\* retries.
THEOREM CoachInvariance == CoachSpec => []CoachInv
BY CoachStarts, CoachStep, PTL DEF CoachSpec

\* chat_pipeline.py 791-800, server.py 1356-1403, 1963-2000: the pipeline's
\* gates let nothing through that the boundary rejects, and no request ends
\* without a text.
THEOREM ReplyIsSafe == CoachSpec => []ReplySafe
<1>1. CoachInv => ReplySafe
    BY DEF CoachInv, ReplySafe, NeverAnError, GatesAgree, Vetted, Accepted, Boundary
<1> QED BY <1>1, CoachInvariance, PTL

\* _mode_2_validators.py 20-25, 36-39: once the firewall has blocked an answer
\* the model is not asked again.
THEOREM LeakEndsTheAsking == CoachSpec => LeakIsNotRetried
<1>1. CoachInv /\ [CoachNext]_coachVars => [leaked => tries' = tries]_coachVars
    <2> SUFFICES ASSUME CoachInv, CoachNext, leaked PROVE tries' = tries
        BY DEF coachVars
    <2>1. at # "new" /\ at # "asking"
        BY DEF CoachInv, Vetted
    <2> QED BY <2>1 DEF CoachNext, TurnArrives, CoachWork, NoAnswer, Answers, FallBack,
                        Validate
<1> QED BY <1>1, CoachInvariance, PTL DEF CoachSpec, LeakIsNotRetried

HIDE CoachReplyAssumption

-----------------------------------------------------------------------------
(* Sequences and numbers *)

\* A set of natural numbers that is not empty has a least one.
LEMMA LeastNatural ==
    ASSUME NEW T, T \subseteq Nat, T # {}
    PROVE  \E x \in T : \A y \in T : x <= y
<1> DEFINE R == OpToRel(<, Nat)
<1>1. IsWellFoundedOn(R, Nat)
    BY NatLessThanWellFounded
<1>2. \A x, y \in Nat : y < x => <<y, x>> \in R
    BY DEF OpToRel
<1> HIDE DEF R
<1>3. PICK x \in T : \A y \in T : ~(<<y, x>> \in R)
    BY <1>1, WFMin
<1>4. \A y \in T : ~(y < x)
    BY <1>2, <1>3
<1>5. x \in Nat /\ \A y \in T : y \in Nat
    OBVIOUS
<1>6. \A y \in T : x <= y
    BY <1>4, <1>5
<1> QED BY <1>6

\* Induction over the numbers, without an operator: a least exception would have a
\* predecessor that is none.
LEMMA Induction ==
    ASSUME NEW P, 0 \in P, \A n \in Nat : n \in P => n + 1 \in P
    PROVE  \A n \in Nat : n \in P
<1>1. SUFFICES ASSUME Nat \ P # {} PROVE FALSE
  OBVIOUS
<1>2. PICK m \in Nat \ P : \A n \in Nat \ P : m <= n
  BY <1>1, LeastNatural
<1>3. m \in Nat /\ m # 0
  BY <1>2
<1>4. PICK k \in Nat : m = k + 1
  <2>1. m - 1 \in Nat /\ m = (m - 1) + 1
    BY ONLY <1>3
  <2> QED BY <2>1
<1>5. k \notin P
  BY <1>2, <1>4
<1>6. ~(m <= k)
  BY ONLY <1>3, <1>4
<1> QED BY <1>2, <1>4, <1>5, <1>6

\* A function on 0..n is defined by its value at 0 and by what each step makes of the last.
LEMMA Recursion ==
    ASSUME NEW S, NEW a \in S, NEW n \in Nat, NEW F \in [1..n -> [S -> S]]
    PROVE  \E g \in [0..n -> S] : g[0] = a /\ \A i \in 1..n : g[i] = F[i][g[i - 1]]
<1> DEFINE Upto(k, g) == /\ g \in [0..k -> S] /\ g[0] = a
                         /\ \A i \in 1..k : g[i] = F[i][g[i - 1]]
           Reached == {k \in Nat : k <= n => \E g : Upto(k, g)}
<1>1. 0 \in Reached
  <2>1. PICK g : g = [i \in 0..0 |-> a]
    OBVIOUS
  <2>2. Upto(0, g)
    BY <2>1
  <2> QED BY <2>2
<1>2. ASSUME NEW k \in Nat, k \in Reached PROVE k + 1 \in Reached
  <2>1. SUFFICES ASSUME k + 1 <= n PROVE \E g : Upto(k + 1, g)
    OBVIOUS
  <2>2. k <= n /\ k + 1 \in 1..n
    BY <2>1
  <2>3. PICK g : Upto(k, g)
    BY <1>2, <2>2
  <2>4. g[k] \in S /\ F[k + 1] \in [S -> S]
    BY <2>2, <2>3
  <2>5. PICK new : new = [i \in 0..(k + 1) |-> IF i = k + 1 THEN F[k + 1][g[k]] ELSE g[i]]
    OBVIOUS
  <2>6. new \in [0..(k + 1) -> S]
    <3>1. ASSUME NEW i \in 0..(k + 1) PROVE (IF i = k + 1 THEN F[k + 1][g[k]] ELSE g[i]) \in S
      <4>1. CASE i = k + 1
        BY <2>4, <4>1
      <4>2. CASE i # k + 1
        <5>1. i \in 0..k
          BY <4>2
        <5> QED BY <2>3, <4>2, <5>1
      <4> QED BY <4>1, <4>2
    <3> QED BY <2>5, <3>1
  <2>7. new[0] = a
    BY <2>3, <2>5
  <2>8. ASSUME NEW i \in 1..(k + 1) PROVE new[i] = F[i][new[i - 1]]
    <3>1. CASE i = k + 1
      <4>1. i \in 0..(k + 1) /\ i - 1 = k /\ k \in 0..(k + 1) /\ k # k + 1
        BY <3>1
      <4>2. new[i] = F[k + 1][g[k]] /\ new[k] = g[k]
        BY <2>5, <3>1, <4>1
      <4> QED BY <3>1, <4>1, <4>2
    <3>2. CASE i # k + 1
      <4>1. i \in 1..k /\ i \in 0..(k + 1) /\ i - 1 \in 0..(k + 1) /\ i - 1 # k + 1
        BY <3>2
      <4>2. new[i] = g[i] /\ new[i - 1] = g[i - 1]
        BY <2>5, <3>2, <4>1
      <4> QED BY <2>3, <4>1, <4>2
    <3> QED BY <3>1, <3>2
  <2> QED BY <2>6, <2>7, <2>8
<1>3. n \in Reached
  <2> HIDE DEF Reached
  <2> QED BY <1>1, <1>2, Induction
<1> QED BY <1>3

\* A prefix followed by the words after it is the longer prefix, also when the text
\* has grown since.
LEMMA PrefixGrows ==
    ASSUME NEW S, NEW b \in Seq(S), NEW w \in Seq(S), NEW e \in 0..Len(b),
           NEW n \in e..Len(b \o w)
    PROVE  SubSeq(b, 1, e) \o SubSeq(b \o w, e + 1, n) = SubSeq(b \o w, 1, n)
<1>1. b \o w \in Seq(S) /\ Len(b \o w) = Len(b) + Len(w) /\ Len(b) \in Nat /\ Len(w) \in Nat
    BY ConcatProperties, LenProperties
<1>2. SubSeq(b, 1, e) = SubSeq(b \o w, 1, e)
    <2>1. CASE e = 0
        BY <2>1, SubSeqEmpty
    <2>2. CASE e # 0
        <3>1. 1 \in 1..Len(b) /\ e \in 1..Len(b)
            BY <1>1, <2>2
        <3> QED BY <3>1, SubSeqOfConcat1
    <2> QED BY <2>1, <2>2
<1>3. 1 \in 1..Len(b \o w) + 1 /\ e \in 1 - 1..Len(b \o w) /\ n \in e..Len(b \o w)
    BY <1>1
<1> QED BY <1>1, <1>2, <1>3, ConcatAdjacentSubSeq

LEMMA PrefixFacts ==
    ASSUME NEW S, NEW t \in Seq(S), NEW n \in 0..Len(t)
    PROVE  SubSeq(t, 1, n) \in Seq(S) /\ Len(SubSeq(t, 1, n)) = n
<1>1. Len(t) \in Nat
    BY LenProperties
<1>2. \A i \in 1..n : t[i] \in S
    BY <1>1, ElementOfSeq
<1> QED BY <1>1, <1>2, SubSeqProperties

-----------------------------------------------------------------------------
(* ChatStream: what the client has seen of a rejected attempt *)

USE ChatStreamAssumption

Clean(t) == Starts(t, Forbidden) = {} /\ Starts(t, Blocked) = {}

LEMMA Phrases ==
    /\ Forbidden \in Seq(Vocabulary) /\ Len(Forbidden) = 2
    /\ Blocked \in Seq(Vocabulary) /\ Len(Blocked) = 2
    /\ LookaheadWords \in Nat /\ LookaheadWords >= 2
BY DEF Forbidden, Blocked, Vocabulary

LEMMA TokenWords ==
    ASSUME NEW w \in Tokens
    PROVE  w \in Seq(Vocabulary) /\ Len(w) >= 1
<1>1. w \in Seq(Vocabulary) /\ w # <<>>
    OBVIOUS
<1> QED BY <1>1, EmptySeq, LenProperties

\* A phrase that appears when words are added ends in them.
LEMMA PhraseIsNew ==
    ASSUME NEW b \in Seq(Vocabulary), NEW w \in Seq(Vocabulary), Clean(b),
           NEW i \in Starts(b \o w, Forbidden) \union Starts(b \o w, Blocked)
    PROVE  i \in Nat /\ i >= Len(b)
<1>1. /\ b \o w \in Seq(Vocabulary) /\ Len(b \o w) = Len(b) + Len(w)
      /\ Len(b) \in Nat /\ Len(w) \in Nat
    BY ConcatProperties, LenProperties
<1>2. i \in 1..Len(b \o w)
    BY DEF Starts
<1>3. ASSUME i < Len(b) PROVE FALSE
    <2>1. i \in 1..Len(b) /\ i + 1 \in 1..Len(b)
        BY <1>1, <1>2, <1>3
    <2>2. SubSeq(b \o w, i, i + 1) = SubSeq(b, i, i + 1)
        BY <2>1, SubSeqOfConcat1
    <2>3. i + Len(Forbidden) - 1 = i + 1 /\ i + Len(Blocked) - 1 = i + 1
        BY <2>1, Phrases
    <2>4. i \in Starts(b, Forbidden) \union Starts(b, Blocked)
        <3>1. CASE i \in Starts(b \o w, Forbidden)
            <4>1. SubSeq(b \o w, i, i + Len(Forbidden) - 1) = Forbidden
                BY <3>1 DEF Starts
            <4>2. SubSeq(b, i, i + Len(Forbidden) - 1) = Forbidden
                BY <2>2, <2>3, <4>1
            <4>3. i \in 1..Len(b) /\ i + Len(Forbidden) - 1 <= Len(b)
                BY <1>1, <2>1, <2>3
            <4> QED BY <4>2, <4>3 DEF Starts
        <3>2. CASE i \in Starts(b \o w, Blocked)
            <4>1. SubSeq(b \o w, i, i + Len(Blocked) - 1) = Blocked
                BY <3>2 DEF Starts
            <4>2. SubSeq(b, i, i + Len(Blocked) - 1) = Blocked
                BY <2>2, <2>3, <4>1
            <4>3. i \in 1..Len(b) /\ i + Len(Blocked) - 1 <= Len(b)
                BY <1>1, <2>1, <2>3
            <4> QED BY <4>2, <4>3 DEF Starts
        <3> QED BY <3>1, <3>2
    <2> QED BY <2>4 DEF Clean
<1> QED BY <1>1, <1>2, <1>3

\* The places before the terminal event.
Generating == {"new", "reading", "sent", "flushed", "done", "recovered", "abort"}

StreamTypes ==
    /\ attempt \in 0..MaxStreamRetries
    /\ buffer \in Seq(Vocabulary) /\ Len(buffer) <= MaxWords /\ emitted \in 0..Len(buffer)
    /\ rotationTried \in BOOLEAN /\ anyEmitted \in BOOLEAN /\ mateShown \in BOOLEAN
    /\ Len(stored) \in 0..1 /\ turns \in 0..1 /\ offence \in Nat
    /\ terminal \in {"none", "done", "recovered", "abort"}
    /\ swallowed \subseteq {"persist", "record", "rotate"}
    /\ place \in Generating \union {"persist", "record", "rotate", "deliver", "ended", "left"}

\* The words that went out stay behind the last ones, the text holds no rejected
\* phrase, and a live attempt shows its own prefix.
Forwarded ==
    /\ Clean(buffer)
    /\ emitted > 0 => anyEmitted /\ emitted + LookaheadWords <= Len(buffer)
    /\ place \in {"new", "reading", "sent"} /\ StillLive => panel = SubSeq(buffer, 1, emitted)
    /\ place \in {"flushed", "done"} => panel = buffer
    /\ terminal = "done" /\ place \notin {"ended", "left"} => panel = buffer

\* What an attempt was rejected for lies behind what was shown, and nothing is shown
\* after that until the end.
Unfinished ==
    place # "ended" =>
        /\ panel \in Seq(Vocabulary) /\ Len(panel) <= MaxWords
        /\ offence # 0 =>
              /\ Len(panel) < offence /\ anyEmitted
              /\ \/ place = "abort" \/ terminal \in {"recovered", "abort"}
                 \/ emitted = 0 /\ place \in {"reading", "recovered"}

\* Each best-effort step is taken once, and leaves its mark or an exception that was
\* swallowed: before the terminal event, behind it and at the end.
EndedAsTold ==
    /\ place \in Generating => terminal = "none"
    /\ place \in Generating \union {"persist"} => stored = <<>> /\ "persist" \notin swallowed
    /\ place \in Generating \union {"persist", "record"} => turns = 0
    /\ place \in {"record", "rotate", "deliver"} =>
           stored = IF "persist" \in swallowed THEN <<>> ELSE <<FinalReply>>
    /\ place = "ended" => stored = IF "persist" \in swallowed THEN <<>> ELSE <<panel>>

RotatedOnce ==
    /\ rotations = IF rotationTried /\ "rotate" \notin swallowed THEN 1 ELSE 0
    /\ ~rotationTried => "rotate" \notin swallowed
    /\ place \in {"done", "deliver", "ended"} \/ terminal = "done" => rotationTried

StreamInv == StreamTypes /\ Forwarded /\ Unfinished /\ EndedAsTold /\ RotatedOnce

LEMMA EmptyText ==
    /\ <<>> \in Seq(Vocabulary) /\ Len(<<>>) = 0 /\ Clean(<<>>)
    /\ SubSeq(<<>>, 1, 0) = <<>>
<1>1. <<>> \in Seq(Vocabulary) /\ Len(<<>>) = 0
    BY EmptySeq
<1>2. SubSeq(<<>>, 1, 0) = <<>>
    BY SubSeqEmpty
<1>3. Clean(<<>>)
    BY <1>1 DEF Clean, Starts
<1> QED BY <1>1, <1>2, <1>3

LEMMA StreamStarts == ChatStreamInit => StreamInv
<1> SUFFICES ASSUME ChatStreamInit PROVE StreamInv
    OBVIOUS
<1> USE EmptyText DEF ChatStreamInit
<1>1. StreamTypes
    <2>1. buffer \in Seq(Vocabulary) /\ Len(buffer) = 0
        OBVIOUS
    <2>2. attempt \in 0..MaxStreamRetries /\ emitted \in 0..0 /\ 0 <= MaxWords /\ offence \in Nat
        OBVIOUS
    <2>3. /\ mateShown \in BOOLEAN /\ anyEmitted \in BOOLEAN /\ rotationTried \in BOOLEAN
          /\ place = "new" /\ terminal = "none" /\ swallowed = {}
        BY Zenon
    <2>4. Len(stored) \in 0..1 /\ turns \in 0..1
        <3>1. Len(stored) = 0 /\ turns = 0
            BY Zenon
        <3> QED BY <3>1
    <2> QED BY <2>1, <2>2, <2>3, <2>4 DEF StreamTypes, Generating
<1>2. Forwarded
    BY DEF Forwarded
<1>3. Unfinished /\ EndedAsTold /\ RotatedOnce
    BY DEF Unfinished, EndedAsTold, RotatedOnce
<1> QED BY <1>1, <1>2, <1>3 DEF StreamInv

\* A rejected attempt: nothing more is shown of it, and a later one is shown only when
\* this one was not.
LEMMA RetryFits ==
    ASSUME StreamInv, place = "reading", Retry,
           UNCHANGED <<anyEmitted, panel, mateShown, outcome>>,
           offence' = offence \/ (emitted > 0 /\ offence' \in Nat /\ Len(panel) < offence')
    PROVE  StreamInv'
<1> USE DEF StreamInv
<1>0. terminal = "none" /\ terminal' = "none"
    BY DEF EndedAsTold, Generating, outcome
<1>1. CASE attempt < MaxStreamRetries
    <2>1. /\ attempt' = attempt + 1 /\ buffer' = <<>> /\ emitted' = 0 /\ place' = "reading"
        BY <1>1 DEF Retry
    <2>2. StreamTypes'
        BY <1>1, <2>1, EmptyText DEF StreamTypes, Generating, outcome
    <2>3. Forwarded'
        <3>1. ~anyEmitted => panel = <<>>
            <4>1. ~anyEmitted => panel = SubSeq(buffer, 1, 0)
                BY DEF Forwarded, StillLive, StreamTypes
            <4> QED BY <4>1, SubSeqEmpty
        <3>2. Clean(buffer') /\ SubSeq(buffer', 1, emitted') = <<>>
            BY <2>1, EmptyText
        <3>3. emitted' = 0 /\ ~(emitted' > 0)
            BY <2>1
        <3> QED BY <1>0, <2>1, <3>1, <3>2, <3>3 DEF Forwarded, StillLive
    <2>4. Unfinished' /\ EndedAsTold' /\ RotatedOnce'
        BY <2>1 DEF Unfinished, EndedAsTold, RotatedOnce, Forwarded, Generating, outcome
    <2> QED BY <2>2, <2>3, <2>4
<1>2. CASE ~(attempt < MaxStreamRetries)
    <2>1. place' = "abort" /\ UNCHANGED <<attempt, buffer, emitted>>
        BY <1>2 DEF Retry
    <2> QED BY <2>1 DEF StreamTypes, Forwarded, Unfinished, EndedAsTold, RotatedOnce, Generating, outcome
<1> QED BY <1>1, <1>2

\* Words arrive: the whole buffer is judged before the safe ones are forwarded.
LEMMA TokenFits ==
    ASSUME StreamInv, NEW words \in Tokens, Token(words)
    PROVE  StreamInv'
<1> USE DEF StreamInv
<1> DEFINE text == buffer \o words
           upTo == SafeBoundary(text)
           bad == Starts(text, Forbidden) \union Starts(text, Blocked)
<1>1. /\ buffer \in Seq(Vocabulary) /\ words \in Seq(Vocabulary) /\ Len(buffer) \in Nat
      /\ Len(words) \in Nat /\ text \in Seq(Vocabulary)
      /\ Len(text) = Len(buffer) + Len(words) /\ Len(text) <= MaxWords /\ place = "reading"
      /\ emitted \in 0..Len(buffer) /\ Clean(buffer)
    BY TokenWords, ConcatProperties, LenProperties DEF Token, StreamTypes, Forwarded
<1>0. terminal = "none" /\ terminal' = "none"
    BY <1>1 DEF Token, EndedAsTold, Generating, outcome
<1>2. CASE bad # {}
    <2>1. \A i \in bad : i \in Nat /\ i >= Len(buffer)
        BY <1>1, PhraseIsNew
    <2>2. /\ offence' = IF emitted > 0 THEN CHOOSE i \in bad : \A j \in bad : i <= j ELSE offence
          /\ IF Has(text, Blocked)
             THEN place' = "abort" /\ UNCHANGED <<attempt, buffer, emitted>>
             ELSE Retry
          /\ UNCHANGED <<anyEmitted, panel, mateShown, outcome>>
        BY <1>2 DEF Token
    <2>3. offence' = offence \/ (emitted > 0 /\ offence' \in Nat /\ Len(panel) < offence')
        <3> SUFFICES ASSUME emitted > 0
                     PROVE  offence' \in Nat /\ Len(panel) < offence'
            BY <1>1, <2>2
        <3>1. \E i \in bad : \A j \in bad : i <= j
            BY <1>2, <2>1, LeastNatural
        <3>2. offence' \in bad
            BY <2>2, <3>1
        <3>3. Len(panel) = emitted
            BY <1>1, PrefixFacts DEF Forwarded, StillLive
        <3>4. emitted + 2 <= Len(buffer)
            BY <1>1, Phrases DEF Forwarded
        <3> HIDE DEF bad
        <3> QED BY <1>1, <2>1, <3>2, <3>3, <3>4
    <2>4. CASE Has(text, Blocked)
        BY <1>1, <2>2, <2>3, <2>4
           DEF StreamTypes, Forwarded, Unfinished, EndedAsTold, RotatedOnce, Generating, outcome
    <2>5. CASE ~Has(text, Blocked)
        BY <1>1, <2>2, <2>3, <2>5, RetryFits
    <2> QED BY <2>4, <2>5
<1>3. CASE bad = {}
    <2>1. /\ buffer' = text
          /\ IF StillLive /\ upTo > emitted
             THEN /\ Send(text, upTo)
                  /\ emitted' = upTo /\ anyEmitted' = TRUE
                  /\ place' = "sent"
             ELSE UNCHANGED <<panel, emitted, anyEmitted, place>>
          /\ UNCHANGED <<attempt, offence, mateShown, outcome>>
        BY <1>3 DEF Token
    <2>2. Clean(text)
        BY <1>3 DEF Clean
    <2>3. upTo \in 0..Len(text) /\ (upTo > 0 => upTo + LookaheadWords <= Len(text))
        BY <1>1, Phrases DEF SafeBoundary, Held
    <2> HIDE DEF text, upTo, bad
    <2>4. CASE StillLive /\ upTo > emitted
        <3>1. panel = SubSeq(buffer, 1, emitted)
            BY <1>1, <2>4 DEF Forwarded
        <3>2. panel' = SubSeq(text, 1, upTo)
            <4>1. upTo \in emitted..Len(buffer \o words)
                BY <1>1, <2>3, <2>4 DEF text
            <4>2. panel' = SubSeq(buffer, 1, emitted) \o SubSeq(buffer \o words, emitted + 1, upTo)
                BY <2>1, <2>4, <3>1 DEF Send, text
            <4> QED BY <1>1, <4>1, <4>2, PrefixGrows DEF text
        <3>3. panel' \in Seq(Vocabulary) /\ Len(panel') = upTo
            BY <1>1, <2>3, <3>2, PrefixFacts
        <3>4. offence = 0
            BY <1>0, <1>1, <2>4 DEF Unfinished, StillLive, StreamTypes
        <3>5. emitted' = upTo /\ anyEmitted' = TRUE /\ place' = "sent"
              /\ upTo > 0
            BY <1>1, <2>1, <2>3, <2>4
        <3>6. StreamTypes'
            BY <1>1, <2>1, <2>3, <3>5 DEF StreamTypes, Generating, outcome
        <3>7. Forwarded'
            BY <1>0, <2>1, <2>2, <2>3, <3>2, <3>5 DEF Forwarded
        <3>8. Len(panel') <= MaxWords
            BY <1>1, <2>3, <3>3
        <3> QED BY <1>1, <2>1, <3>3, <3>4, <3>5, <3>6, <3>7, <3>8 DEF Unfinished, EndedAsTold, RotatedOnce, Generating, outcome
    <2>5. CASE ~(StillLive /\ upTo > emitted)
        <3>1. SubSeq(text, 1, emitted) = SubSeq(buffer, 1, emitted)
            <4>1. CASE emitted = 0
                BY <4>1, SubSeqEmpty
            <4>2. CASE emitted # 0
                <5>1. 1 \in 1..Len(buffer) /\ emitted \in 1..Len(buffer)
                    BY <1>1, <4>2
                <5> QED BY <1>1, <5>1, SubSeqOfConcat1 DEF text
            <4> QED BY <4>1, <4>2
        <3>2. UNCHANGED <<panel, emitted, anyEmitted, place>>
            BY <2>1, <2>5
        <3>3. StreamTypes'
            <4>1. emitted \in 0..Len(text)
                BY <1>1
            <4> QED BY <1>1, <2>1, <3>2, <4>1 DEF StreamTypes, Generating, outcome
        <3>4. Forwarded'
            BY <1>0, <1>1, <2>1, <2>2, <3>1, <3>2, Phrases DEF Forwarded, StillLive
        <3> QED BY <1>1, <2>1, <3>2, <3>3, <3>4 DEF Unfinished, EndedAsTold, RotatedOnce, Generating, outcome
    <2> QED BY <2>4, <2>5
<1> QED BY <1>2, <1>3

\* The stream of the model ends.
LEMMA EndOfStreamFits ==
    ASSUME StreamInv, NEW refusal, EndOfStream(refusal)
    PROVE  StreamInv'
<1> USE DEF StreamInv
<1>1. place = "reading" /\ UNCHANGED <<mateShown, anyEmitted, outcome, offence>>
    BY DEF EndOfStream
<1>0. terminal = "none" /\ terminal' = "none"
    BY <1>1 DEF EndedAsTold, Generating, outcome
<1>2. CASE Retry /\ UNCHANGED panel
    BY <1>1, <1>2, RetryFits
<1>3. CASE /\ StillLive /\ Send(buffer, Len(buffer))
           /\ place' = "flushed"
           /\ UNCHANGED <<attempt, buffer, emitted>>
    <2>1. /\ buffer \in Seq(Vocabulary) /\ Len(buffer) \in Nat /\ emitted \in 0..Len(buffer)
        BY LenProperties DEF StreamTypes
    <2>2. panel' = buffer
        <3>1. panel' = SubSeq(buffer, 1, emitted) \o SubSeq(buffer, emitted + 1, Len(buffer))
            BY <1>1, <1>3 DEF Send, Forwarded
        <3>2. 1 \in 1..Len(buffer) + 1 /\ emitted \in 1 - 1..Len(buffer)
              /\ Len(buffer) \in emitted..Len(buffer)
            BY <2>1
        <3>3. panel' = SubSeq(buffer, 1, Len(buffer))
            BY <2>1, <3>1, <3>2, ConcatAdjacentSubSeq
        <3> QED BY <2>1, <3>3, SubSeqFull
    <2>3. offence = 0
        BY <1>0, <1>1, <1>3 DEF Unfinished, StillLive, StreamTypes
    <2> QED BY <1>0, <1>1, <1>3, <2>1, <2>2, <2>3
            DEF StreamTypes, Forwarded, Unfinished, EndedAsTold, RotatedOnce, Generating, StillLive, outcome
<1>4. CASE /\ ~StillLive /\ place' = "recovered"
           /\ UNCHANGED <<attempt, buffer, emitted, panel>>
    BY <1>1, <1>4 DEF StreamTypes, Forwarded, Unfinished, EndedAsTold, RotatedOnce, Generating, StillLive, outcome
<1> QED BY <1>2, <1>3, <1>4 DEF EndOfStream

\* A pipeline that is over has nothing left to show.
LEMMA LocalsAreGone ==
    ASSUME buffer' = <<>>, emitted' = 0
    PROVE  /\ buffer' \in Seq(Vocabulary) /\ Len(buffer') <= MaxWords
           /\ emitted' \in 0..Len(buffer') /\ Clean(buffer') /\ ~(emitted' > 0)
<1>1. buffer' \in Seq(Vocabulary) /\ Len(buffer') = 0 /\ Clean(buffer')
    BY EmptyText
<1> QED BY <1>1

\* The client leaves.
LEMMA EndedEarlyFits ==
    ASSUME StreamInv, place \in {"sent", "flushed", "deliver"}, place' = "left",
           buffer' = <<>>, emitted' = 0, UNCHANGED <<pipeline, panel, outcome>>
    PROVE  StreamInv'
<1> USE DEF StreamInv
<1>1. StreamTypes'
    BY LocalsAreGone DEF StreamTypes, Generating, pipeline, outcome
<1>2. Forwarded'
    BY LocalsAreGone DEF Forwarded
<1>3. Unfinished'
    BY DEF Unfinished, pipeline, outcome
<1>4. EndedAsTold' /\ RotatedOnce'
    BY DEF EndedAsTold, RotatedOnce, Generating, outcome
<1> QED BY <1>1, <1>2, <1>3, <1>4

LEMMA StreamStep == StreamInv /\ [ChatStreamNext]_streamVars => StreamInv'
<1> SUFFICES ASSUME StreamInv, [ChatStreamNext]_streamVars PROVE StreamInv'
    OBVIOUS
<1> USE DEF StreamInv
<1>1. CASE AskCoach
    BY <1>1 DEF AskCoach, StreamTypes, Forwarded, Unfinished, EndedAsTold, RotatedOnce, Generating, StillLive, outcome
<1>2. CASE CommitRotation
    <2>1. /\ place \in {"sent", "flushed", "rotate"} /\ rotationTried'
          /\ IF ~rotationTried
             THEN \/ rotations' = rotations + 1 /\ UNCHANGED swallowed
                  \/ Swallow("rotate") /\ UNCHANGED rotations
             ELSE UNCHANGED <<rotations, swallowed>>
          /\ \/ place = "sent" /\ place' = "reading"
             \/ place = "flushed" /\ place' = "done"
             \/ place = "rotate" /\ place' = "deliver"
          /\ UNCHANGED <<pipeline, locals, panel, stored, turns, terminal>>
        BY <1>2 DEF CommitRotation, MayRotate
    <2>2. RotatedOnce' /\ swallowed' \subseteq {"persist", "record", "rotate"}
        <3>1. CASE rotationTried
            BY <2>1, <3>1 DEF RotatedOnce, StreamTypes
        <3>2. CASE ~rotationTried
            <4>1. rotations = 0 /\ "rotate" \notin swallowed
                BY <3>2 DEF RotatedOnce
            <4>2. \/ rotations' = 1 /\ swallowed' = swallowed
                  \/ rotations' = 0 /\ swallowed' = swallowed \union {"rotate"}
                BY <2>1, <3>2, <4>1 DEF Swallow
            <4> QED BY <2>1, <4>1, <4>2 DEF RotatedOnce, StreamTypes
        <3> QED BY <3>1, <3>2 DEF StreamTypes
    <2>3. StreamTypes'
        BY <2>1, <2>2 DEF StreamTypes, Generating, pipeline, locals
    <2>4. Forwarded' /\ Unfinished'
        BY <2>1 DEF Forwarded, Unfinished, StillLive, pipeline, locals
    <2>5. "persist" \in swallowed' <=> "persist" \in swallowed
        BY <2>1 DEF Swallow
    <2>6. EndedAsTold'
        BY <2>1, <2>5 DEF EndedAsTold, Generating, FinalReply, pipeline, locals
    <2> QED BY <2>2, <2>3, <2>4, <2>6
<1>3. CASE Transport
    BY <1>3 DEF Transport, StreamTypes, Forwarded, Unfinished, EndedAsTold, RotatedOnce,
                Generating, StillLive, outcome
<1>9. CASE Leave
    <2>1. /\ place \in {"sent", "flushed", "deliver"} /\ place' = "left"
          /\ buffer' = <<>> /\ emitted' = 0
          /\ UNCHANGED <<pipeline, panel, outcome>>
        BY <1>9 DEF Leave, PipelineOver
    <2> QED BY <2>1, EndedEarlyFits
<1>4. CASE Done \/ Recovered
    <2>1. /\ place \in {"done", "recovered"} /\ place' = "persist" /\ terminal' = place
          /\ UNCHANGED <<pipeline, locals, panel, stored, turns, rotations, rotationTried, swallowed>>
        BY <1>4 DEF Done, Recovered, Conclude
    <2>2. StreamTypes'
        BY <2>1 DEF StreamTypes, Generating, pipeline, locals
    <2>3. Forwarded'
        BY <2>1 DEF Forwarded, StillLive, pipeline, locals
    <2>4. Unfinished'
        <3>1. terminal = "none"
            BY <2>1 DEF EndedAsTold, Generating
        <3>2. offence # 0 => emitted = 0 /\ place = "recovered"
            BY <2>1, <3>1 DEF Unfinished
        <3> QED BY <2>1, <3>1, <3>2 DEF Unfinished, pipeline, locals
    <2>5. EndedAsTold'
        BY <2>1 DEF EndedAsTold, Generating
    <2>6. RotatedOnce'
        BY <2>1 DEF RotatedOnce
    <2> QED BY <2>2, <2>3, <2>4, <2>5, <2>6
<1>10. CASE Abort
    <2>1. /\ place = "abort" /\ place' = "persist" /\ terminal' = "abort"
          /\ buffer' = <<>> /\ emitted' = 0
          /\ UNCHANGED <<pipeline, panel, stored, turns, rotations, rotationTried, swallowed>>
        BY <1>10 DEF Abort, Conclude, PipelineOver
    <2>2. StreamTypes'
        BY <2>1, LocalsAreGone DEF StreamTypes, Generating, pipeline
    <2>3. Forwarded'
        BY <2>1, LocalsAreGone DEF Forwarded
    <2>4. Unfinished'
        BY <2>1 DEF Unfinished, pipeline
    <2>5. EndedAsTold'
        BY <2>1 DEF EndedAsTold, Generating
    <2>6. RotatedOnce'
        BY <2>1 DEF RotatedOnce
    <2> QED BY <2>2, <2>3, <2>4, <2>5, <2>6
<1>5. CASE Persist
    <2>1. /\ place = "persist" /\ place' = "record"
          /\ \/ stored' = Append(stored, FinalReply) /\ UNCHANGED swallowed
             \/ Swallow("persist") /\ UNCHANGED stored
          /\ UNCHANGED <<pipeline, locals, panel, turns, rotations, rotationTried, terminal>>
        BY <1>5 DEF Persist
    <2>2. stored = <<>> /\ "persist" \notin swallowed /\ turns = 0
        BY <2>1 DEF EndedAsTold
    <2>3. /\ \/ stored' = <<FinalReply>> /\ swallowed' = swallowed
             \/ stored' = <<>> /\ swallowed' = swallowed \union {"persist"}
          /\ FinalReply' = FinalReply
        BY <2>1, <2>2 DEF Swallow, FinalReply, pipeline, locals
    <2>4. Len(stored') \in 0..1 /\ ("rotate" \in swallowed' <=> "rotate" \in swallowed)
        BY <2>3
    <2>5. StreamTypes'
        BY <2>1, <2>3, <2>4 DEF StreamTypes, Generating, pipeline, locals
    <2>6. Forwarded' /\ Unfinished'
        BY <2>1 DEF Forwarded, Unfinished, StillLive, pipeline, locals
    <2>7. EndedAsTold'
        BY <2>1, <2>2, <2>3 DEF EndedAsTold, Generating
    <2>8. RotatedOnce'
        BY <2>1, <2>4 DEF RotatedOnce
    <2> QED BY <2>5, <2>6, <2>7, <2>8
<1>6. CASE RecordTurn
    <2>1. /\ place = "record" /\ place' \in {"deliver", "rotate"}
          /\ terminal = "done" \/ place' = "rotate"
          /\ \/ turns' = turns + 1 /\ UNCHANGED swallowed
             \/ Swallow("record") /\ UNCHANGED turns
          /\ UNCHANGED <<pipeline, locals, panel, stored, rotations, rotationTried, terminal>>
        BY <1>6 DEF RecordTurn
    <2>2. /\ turns' \in 0..1 /\ swallowed' \subseteq {"persist", "record", "rotate"}
          /\ "rotate" \in swallowed' <=> "rotate" \in swallowed
          /\ "persist" \in swallowed' <=> "persist" \in swallowed
        <3>1. turns' \in 0..1
            BY <2>1 DEF EndedAsTold, Generating
        <3>2. swallowed' = swallowed \/ swallowed' = swallowed \union {"record"}
            BY <2>1 DEF Swallow
        <3> QED BY <3>1, <3>2 DEF StreamTypes
    <2>3. StreamTypes'
        BY <2>1, <2>2 DEF StreamTypes, Generating, pipeline, locals
    <2>4. Forwarded' /\ Unfinished'
        BY <2>1 DEF Forwarded, Unfinished, StillLive, pipeline, locals
    <2>5. EndedAsTold'
        BY <2>1, <2>2 DEF EndedAsTold, Generating, FinalReply, pipeline, locals
    <2>6. RotatedOnce'
        BY <2>1, <2>2 DEF RotatedOnce
    <2> QED BY <2>3, <2>4, <2>5, <2>6
<1>7. CASE Deliver
    <2>1. /\ place = "deliver" /\ place' = "ended"
          /\ IF terminal = "done" THEN UNCHANGED panel ELSE panel' = FinalReply
          /\ PipelineOver /\ UNCHANGED <<pipeline, outcome>>
        BY <1>7 DEF Deliver, Replace
    <2>2. panel' = FinalReply
        BY <2>1 DEF Forwarded, FinalReply
    <2>3. StreamTypes' /\ Unfinished' /\ RotatedOnce'
        BY <2>1, EmptyText DEF StreamTypes, Generating, Unfinished, RotatedOnce, PipelineOver, pipeline, outcome
    <2>4. Forwarded'
        BY <2>1, <2>2, EmptyText DEF Forwarded, StillLive, PipelineOver, pipeline, outcome
    <2>5. EndedAsTold'
        BY <2>1, <2>2 DEF EndedAsTold, Generating, outcome
    <2> QED BY <2>3, <2>4, <2>5
<1>8. CASE UNCHANGED streamVars
    BY <1>8 DEF streamVars, outcome, StreamTypes, Forwarded, Unfinished, EndedAsTold, RotatedOnce,
                Generating, StillLive, FinalReply
<1> QED BY <1>1, <1>2, <1>3, <1>4, <1>5, <1>6, <1>7, <1>8, <1>9, <1>10, TokenFits, EndOfStreamFits
        DEF ChatStreamNext, GeneratorStep

\* What a stream has shown, kept back and stored, for any look-ahead no phrase of a
\* gate is longer than, any number of retries and replies of any length, whichever of
\* its best-effort steps fail.
THEOREM StreamInvariance == ChatStreamSpec => []StreamInv
BY StreamStarts, StreamStep, PTL DEF ChatStreamSpec

\* chat_stream_pipeline.py 14-17, server.py 2030-2036, 2063-2075: no word of a phrase a
\* gate rejects reaches the client; a stream that has ended shows exactly the one reply
\* that was stored, or storing it failed; and it has committed the rotation once, or
\* that commit failed.
THEOREM StreamIsSafe == ChatStreamSpec => []StreamSafe
<1>1. StreamInv => StreamSafe
    <2> SUFFICES ASSUME StreamInv PROVE StreamSafe
        OBVIOUS
    <2>1. ChatStreamTypeOK
        <3>1. Len(stored) <= 1
            <4>1. Len(stored) \in 0..1
                BY DEF StreamInv, StreamTypes
            <4>2. \A n \in 0..1 : n <= 1
                OBVIOUS
            <4> QED BY <4>1, <4>2, Zenon
        <3>2. place = "reading" => Len(panel) <= MaxWords
            BY DEF StreamInv, Unfinished
        <3> QED BY <3>1, <3>2 DEF StreamInv, StreamTypes, Generating, ChatStreamTypeOK
    <2>2. PanelIsHistory
        BY DEF StreamInv, EndedAsTold, PanelIsHistory
    <2>3. EndedStreamRotated
        BY DEF StreamInv, RotatedOnce, EndedStreamRotated
    <2> QED BY <2>1, <2>2, <2>3 DEF StreamInv, Unfinished, StreamSafe, NoLeadingWordShown
<1> QED BY <1>1, StreamInvariance, PTL

HIDE ChatStreamAssumption

-----------------------------------------------------------------------------
(* LiveMove: what is said of a move is said from the right side *)

\* No centipawn score reaches the value of a mate, as move_quality.py takes for
\* granted when it values a mate at almost 10000.
MatesOutrank == \A v \in Centipawns, n \in MateIn : Abs(v) + Abs(n) <= 10000

USE LiveMoveAssumption DEF Scores, CoachedMoves

Maybe(S) == {<<>>} \union {<<x>> : x \in S}

\* What an optional value holds.
LEMMA MaybeHolds ==
    ASSUME NEW S, NEW v \in Maybe(S), v # <<>>
    PROVE  v[1] \in S /\ v = <<v[1]>>
BY DEF Maybe

LEMMA MaybeMakes ==
    ASSUME NEW S, NEW x \in S
    PROVE  <<x>> \in Maybe(S) /\ <<x>> # <<>> /\ <<x>>[1] = x
BY DEF Maybe

\* A score has a type and an integer, and is no mate in 0.
LEMMA ScoreFields ==
    ASSUME NEW s \in Scores
    PROVE  /\ s.type \in {"cp", "mate"} /\ s.value \in Int
           /\ s.type = "cp" => s.value \in Centipawns
           /\ s.type = "mate" => s.value \in MateIn /\ s.value # 0
<1>1. CASE \E v \in Centipawns : s = [type |-> "cp", value |-> v]
  <2>1. PICK v \in Centipawns : s = [type |-> "cp", value |-> v]
    BY <1>1
  <2>2. s.type = "cp" /\ s.value = v
    BY <2>1
  <2> QED BY <2>2
<1>2. CASE \E v \in MateIn : s = [type |-> "mate", value |-> v]
  <2>1. PICK v \in MateIn : s = [type |-> "mate", value |-> v]
    BY <1>2
  <2>2. s.type = "mate" /\ s.value = v
    BY <2>1
  <2> QED BY <2>2
<1> QED BY <1>1, <1>2

LEMMA MoveFields ==
    ASSUME NEW m \in CoachedMoves
    PROVE  m.white \in BOOLEAN /\ m.before \in Scores /\ m.after \in Scores
           /\ m.fenBefore \in {"absent", "joins", "stale"}
OBVIOUS

HIDE DEF Scores, CoachedMoves

LEMMA BlamesLose ==
    ASSUME NEW p \in Int, NEW q \in Int, Quality(p, q) \in Blames
    PROVE  p - q > 60
<1>1. CASE p - q <= 20
    BY <1>1 DEF Quality, Blames
<1>2. CASE p - q > 20 /\ p - q <= 60
    BY <1>2 DEF Quality, Blames
<1> QED BY <1>1, <1>2

\* A move the grade blames leaves its player worse off.
LEMMA BlameMeansWorse ==
    ASSUME MatesOutrank, NEW white \in BOOLEAN, NEW s \in Scores, NEW t \in Scores,
           Quality(PlayerCp(s, white), PlayerCp(t, white)) \in Blames
    PROVE  WorseFor(Colour(white), t, s)
<1> DEFINE p == PlayerCp(s, white)
           q == PlayerCp(t, white)
<1>1. p \in Int /\ q \in Int
    BY ScoreFields DEF PlayerCp
<1>2. p - q > 60
    <2>1. Quality(p, q) \in Blames
        OBVIOUS
    <2> HIDE DEF p, q
    <2> QED BY <1>1, <2>1, BlamesLose
<1>3. /\ s.type = "mate" => Abs(s.value) <= 10000
      /\ t.type = "mate" => Abs(t.value) <= 10000
      /\ s.type = "mate" /\ t.type = "cp" => Abs(t.value) + Abs(s.value) <= 10000
      /\ t.type = "mate" /\ s.type = "cp" => Abs(s.value) + Abs(t.value) <= 10000
    BY ScoreFields DEF MatesOutrank, Abs
<1> QED BY <1>2, <1>3, ScoreFields
        DEF PlayerCp, Abs, WorseFor, MateRank, LessFor, Side, Colour

\* Who is named as ahead is who the score favours.
Favours(s, white, d) ==
    LET named == CASE d = "you" -> Colour(white)
                   [] d = "opponent" -> Other(Colour(white))
                   [] OTHER -> d
    IN d \notin {"", "nothing", "equal"} =>
          IF named = "white" THEN s.value > 0 ELSE s.value < 0

LEMMA StandingFavours ==
    ASSUME NEW s \in Scores, NEW white \in BOOLEAN
    PROVE  /\ Favours(s, white, Standing(s, Colour(white)))
           /\ Standing(s, Colour(white)) \in {"you", "opponent", "equal"}
BY ScoreFields DEF Favours, Standing, Equal, Abs, Side, Colour, Other

LEMMA SentenceFavours ==
    ASSUME NEW s \in Scores, NEW white \in BOOLEAN, NEW manner, NEW g
    PROVE  /\ Favours(s, white, Sentence(manner, s, Colour(white), g))
           /\ Sentence(manner, s, Colour(white), g)
                \in {"you", "opponent", "white", "black", "equal", "nothing"}
<1>1. ~Equal(s) => s.value # 0
    BY ScoreFields DEF Equal, Abs
<1>2. ~Equal(s) => Favours(s, white, Side(s)) /\ Side(s) \in {"white", "black"}
    BY <1>1, ScoreFields DEF Favours, Side
<1>3. Favours(s, white, "nothing")
    BY DEF Favours
<1> QED BY <1>2, <1>3, StandingFavours DEF Sentence

\* Bare praise goes to a player who is not clearly worse.
Deserved(s, white, t) ==
    t = "praise" => LET mine == IF white THEN s.value ELSE -s.value
                    IN  mine >= (IF s.type = "cp" THEN -60 ELSE 1)

LEMMA CommentDeserved ==
    ASSUME NEW s \in Scores, NEW white \in BOOLEAN, NEW g
    PROVE  /\ Deserved(s, white, Comment(g, ClearlyWorse(s, Colour(white))))
           /\ Comment(g, ClearlyWorse(s, Colour(white))) \in {"praise", "tempered", "blame", "none"}
<1>1. CASE ClearlyWorse(s, Colour(white))
    BY <1>1 DEF Deserved, Comment
<1>2. CASE ~ClearlyWorse(s, Colour(white))
    <2>1. Deserved(s, white, "praise")
        BY <1>2, ScoreFields DEF Deserved, ClearlyWorse, Equal, Clear, Abs, Side, Colour
    <2> QED BY <1>2, <2>1 DEF Comment, Deserved
<1> QED BY <1>1, <1>2
-----------------------------------------------------------------------------
(* What one request to /live/move knows of its move *)

\* The grade is the one of the two evaluated positions the move joins.
Earned(m, b, e, g) ==
    g # "unknown" =>
        /\ m # <<>> /\ e /\ b = <<m[1].after>> /\ m[1].fenBefore = "joins"
        /\ g = Quality(PlayerCp(m[1].before, m[1].white), PlayerCp(m[1].after, m[1].white))

\* Until a stage is reached the values it sets are blank; what has been said fits
\* the score and the seat.
Fits(s, m, b, e, g, t, d) ==
    /\ m \in Maybe(CoachedMoves) /\ b \in Maybe(Scores)
    /\ s = "new" => m = <<>>
    /\ s \in {"new", "engine"} => b = <<>> /\ ~e
    /\ s \in {"new", "engine", "quality"} => g = "unknown"
    /\ s \in {"new", "engine", "quality", "admission", "reload"} => t = "" /\ d = ""
    /\ s \notin {"new", "failed"} => m # <<>>
    /\ s \notin {"new", "engine", "failed"} => b # <<>>
    /\ s = "quality" => e /\ b = <<m[1].after>>
    /\ s \in {"boundary", "served"} => t # "" /\ d # ""
    /\ t # "" \/ d # "" => m # <<>> /\ b # <<>>
    /\ Earned(m, b, e, g)
    /\ d # "" => Favours(b[1], m[1].white, d)
    /\ t # "" => Deserved(b[1], m[1].white, t)

CallFits(r) ==
    Fits(stage[r], move[r], basis[r], r \in evaluated, grade[r], tone[r], told[r])

Tones == {"", "praise", "tempered", "blame", "none", "model"}
Tellings == {"", "you", "opponent", "white", "black", "equal", "nothing"}

MoveTypes ==
    /\ stage \in [RouteCalls -> Stages]
    /\ move \in [LiveCalls -> Maybe(CoachedMoves)] /\ basis \in [LiveCalls -> Maybe(Scores)]
    /\ evaluated \subseteq LiveCalls
    /\ grade \in [LiveCalls -> Grades \union {"unknown"}]
    /\ tone \in [LiveCalls -> Tones] /\ told \in [LiveCalls -> Tellings]

\* A live request is never at the stages of the other routes.
MovesFit ==
    /\ MoveTypes
    /\ \A r \in LiveCalls : CallFits(r) /\ stage[r] \notin {"store", "work"}

\* The connections that are out, and no chat's is while the model is asked.
PoolFits ==
    /\ enginePool \in BOOLEAN
    /\ connected \subseteq DbCalls /\ IsFiniteSet(connected)
    /\ Cardinality(connected) <= Connections
    /\ \A r \in ChatCalls : stage[r] = "model" => r \notin connected

\* What an evaluation call is about, and the badge it answers.
Boards == [score : Scores \union {Checkmate}, whiteToMove : BOOLEAN]
BadgeFits(s, b, v) ==
    /\ b \in Maybe(Boards)
    /\ s # "new" => b # <<>>
    /\ s \in {"new", "engine"} => v = <<>>
    /\ v # <<>> => b # <<>> /\ v = <<BadgeScore(b[1].score, b[1].whiteToMove)>>

BadgesFit ==
    /\ DOMAIN board = EvalCalls /\ DOMAIN badge = EvalCalls
    /\ \A r \in EvalCalls : BadgeFits(stage[r], board[r], badge[r])
                           /\ stage[r] \in {"new", "engine", "served"}

LiveMoveInv == MovesFit /\ PoolFits /\ BadgesFit

\* A step of one call that leaves the others alone.
LEMMA OneCallMoves ==
    ASSUME MovesFit, NEW r \in LiveCalls, MoveTypes',
           CallFits(r)', stage'[r] \notin {"store", "work"},
           \A q \in LiveCalls \ {r} :
              /\ stage'[q] = stage[q] /\ move'[q] = move[q] /\ basis'[q] = basis[q]
              /\ (q \in evaluated') = (q \in evaluated)
              /\ grade'[q] = grade[q] /\ tone'[q] = tone[q] /\ told'[q] = told[q]
    PROVE  MovesFit'
<1> SUFFICES ASSUME NEW q \in LiveCalls PROVE (CallFits(q) /\ stage[q] \notin {"store", "work"})'
    BY DEF MovesFit
<1>1. CASE q = r
    BY <1>1
<1>2. CASE q # r
    BY <1>2 DEF MovesFit, CallFits
<1> QED BY <1>1, <1>2

LEMMA QualityIsGrade ==
    ASSUME NEW p \in Int, NEW q \in Int
    PROVE  Quality(p, q) \in Grades
BY DEF Quality, Grades

LEMMA PlayerCpType ==
    ASSUME NEW s \in Scores, NEW white
    PROVE  PlayerCp(s, white) \in Int
BY ScoreFields DEF PlayerCp

USE DEF RouteCalls, DbCalls, Goes, graded, said, badges

\* The actions that only move a live request on.
LEMMA OnwardMoves ==
    ASSUME MovesFit, NEW r \in LiveCalls, NEW s \in {"reload", "model", "failed", "served"},
           stage' = [stage EXCEPT ![r] = s], UNCHANGED <<graded, said>>,
           s \in {"reload", "model"} => stage[r] \in {"admission", "reload"},
           s = "served" => stage[r] = "boundary"
    PROVE  MovesFit'
<1>1. MoveTypes'
    BY DEF MovesFit, MoveTypes, Stages
<1>2. CallFits(r) /\ stage \in [RouteCalls -> Stages]
    BY DEF MovesFit, MoveTypes
<1>3. CallFits(r)' /\ stage'[r] \notin {"store", "work"}
    BY <1>2 DEF CallFits, Fits
<1> QED BY <1>1, <1>3, OneCallMoves DEF MovesFit, MoveTypes

\* A step of a request of another route.
LEMMA OtherCallMoves ==
    ASSUME MovesFit, NEW q \in RouteCalls, q \notin LiveCalls, NEW s \in Stages,
           stage' = [stage EXCEPT ![q] = s], UNCHANGED <<graded, said>>
    PROVE  MovesFit'
<1>1. MoveTypes'
    BY DEF MovesFit, MoveTypes
<1>2. \A r \in LiveCalls : stage'[r] = stage[r]
    BY DEF MovesFit, MoveTypes
<1> QED BY <1>1, <1>2 DEF MovesFit, CallFits

\* The request arrives with a move.
LEMMA ArrivalFits ==
    ASSUME MovesFit, NEW r \in LiveCalls, Arrive(r)
    PROVE  MovesFit'
<1>1. PICK m \in CoachedMoves : move' = [move EXCEPT ![r] = <<m>>]
    BY DEF Arrive
<1>2. stage' = [stage EXCEPT ![r] = "engine"] /\ stage[r] = "new"
    BY DEF Arrive
<1>3. <<m>> \in Maybe(CoachedMoves) /\ <<m>> # <<>>
    BY MaybeMakes
<1>4. MoveTypes'
    BY <1>1, <1>2, <1>3 DEF MovesFit, MoveTypes, Arrive, Stages
<1>5. CallFits(r) /\ stage \in [RouteCalls -> Stages] /\ DOMAIN move = LiveCalls
    BY DEF MovesFit, MoveTypes
<1>6. CallFits(r)' /\ stage'[r] \notin {"store", "work"}
    BY <1>1, <1>2, <1>3, <1>5 DEF CallFits, Fits, Arrive, Earned
<1> QED BY <1>1, <1>2, <1>4, <1>6, OneCallMoves DEF MovesFit, MoveTypes, Arrive

\* The evaluation after the move.
LEMMA EvaluationFits ==
    ASSUME MovesFit, NEW r \in LiveCalls, EvaluateAfter(r)
    PROVE  MovesFit'
<1> DEFINE m == move[r][1]
<1>1. CallFits(r) /\ stage \in [RouteCalls -> Stages] /\ DOMAIN basis = LiveCalls
      /\ stage[r] = "engine"
    BY DEF MovesFit, MoveTypes, EvaluateAfter
<1>2. m \in CoachedMoves /\ m.after \in Scores
    BY <1>1, MaybeHolds, MoveFields DEF CallFits, Fits
<1>3. PICK s \in Scores, e \in {"admission", "quality"} :
         /\ basis' = [basis EXCEPT ![r] = <<s>>]
         /\ stage' = [stage EXCEPT ![r] = e]
         /\ \/ evaluated' = evaluated \union {r} /\ s = m.after
            \/ evaluated' = evaluated /\ e = "admission"
    <2>1. CASE /\ basis' = [basis EXCEPT ![r] = <<m.after>>]
               /\ evaluated' = evaluated \union {r}
               /\ Goes(r, IF m.fenBefore = "absent" THEN "admission" ELSE "quality")
        BY <1>2, <2>1
    <2>2. CASE /\ \E s \in MaterialScores : basis' = [basis EXCEPT ![r] = <<s>>]
               /\ Goes(r, "admission") /\ UNCHANGED evaluated
        <3>1. MaterialScores \subseteq Scores
            BY DEF MaterialScores, Scores
        <3> QED BY <2>2, <3>1
    <2> QED BY <2>1, <2>2 DEF EvaluateAfter
<1>4. <<s>> \in Maybe(Scores) /\ <<s>> # <<>>
    BY MaybeMakes
<1>5. MoveTypes'
    BY <1>3, <1>4 DEF MovesFit, MoveTypes, EvaluateAfter, Stages
<1>6. CallFits(r)' /\ stage'[r] \notin {"store", "work"}
    BY <1>1, <1>3, <1>4 DEF CallFits, Fits, EvaluateAfter, Earned
<1> QED BY <1>3, <1>5, <1>6, OneCallMoves DEF MovesFit, MoveTypes, EvaluateAfter

\* The grade of the move.
LEMMA GradeFits ==
    ASSUME MovesFit, NEW r \in LiveCalls, GradeMove(r)
    PROVE  MovesFit'
<1> DEFINE m == move[r][1]
           q == Quality(PlayerCp(m.before, m.white), PlayerCp(m.after, m.white))
<1>1. CallFits(r) /\ stage \in [RouteCalls -> Stages] /\ DOMAIN grade = LiveCalls
      /\ stage[r] = "quality"
    BY DEF MovesFit, MoveTypes, GradeMove
<1>2. m \in CoachedMoves /\ m.after \in Scores /\ m.before \in Scores
    BY <1>1, MaybeHolds, MoveFields DEF CallFits, Fits
<1>3. q \in Grades
    BY <1>2, PlayerCpType, QualityIsGrade
<1>4. basis[r] = <<m.after>>
    BY <1>1 DEF CallFits, Fits
<1>5. PICK g : /\ g = "unknown" \/ (g = q /\ m.fenBefore = "joins")
               /\ grade' = [grade EXCEPT ![r] = g]
    <2>1. Quality(PlayerCp(m.before, m.white), PlayerCp(basis[r][1], m.white)) = q
        BY <1>4
    <2> HIDE DEF q
    <2>2. \E g \in {"unknown"} \union {x \in {q} : Joins(m)} : grade' = [grade EXCEPT ![r] = g]
        BY <2>1 DEF GradeMove
    <2> QED BY <2>2 DEF Joins
<1>6. MoveTypes'
    <2> HIDE DEF q
    <2> QED BY <1>3, <1>5 DEF MovesFit, MoveTypes, GradeMove, Stages
<1>7. CallFits(r)' /\ stage'[r] \notin {"store", "work"}
    BY <1>1, <1>4, <1>5 DEF CallFits, Fits, GradeMove, Earned
<1> QED BY <1>5, <1>6, <1>7, OneCallMoves DEF MovesFit, MoveTypes, GradeMove

\* What is said of the move, by the model or by the builder.
LEMMA HintFits ==
    ASSUME MovesFit, NEW r \in LiveCalls,
           stage[r] \in {"model", "boundary"}, stage' = [stage EXCEPT ![r] = "boundary"],
           tone' = [tone EXCEPT ![r] = tone'[r]], told' = [told EXCEPT ![r] = told'[r]], UNCHANGED graded,
           tone'[r] \in Tones \ {""}, told'[r] \in Tellings \ {""},
           Favours(basis[r][1], move[r][1].white, told'[r]),
           Deserved(basis[r][1], move[r][1].white, tone'[r])
    PROVE  MovesFit'
<1>1. MoveTypes'
    BY DEF MovesFit, MoveTypes, Stages
<1>2. CallFits(r) /\ stage \in [RouteCalls -> Stages] /\ DOMAIN tone = LiveCalls
      /\ DOMAIN told = LiveCalls
    BY DEF MovesFit, MoveTypes
<1>3. CallFits(r)' /\ stage'[r] \notin {"store", "work"}
    BY <1>2 DEF CallFits, Fits
<1> QED BY <1>1, <1>3, OneCallMoves DEF MovesFit, MoveTypes

LEMMA HintsFit ==
    ASSUME MovesFit, NEW r \in LiveCalls, ModelHint(r) \/ PlainHint(r)
    PROVE  MovesFit'
<1> DEFINE s == basis[r][1]
           white == move[r][1].white
<1>1. CallFits(r) /\ stage[r] \in {"model", "boundary"}
    BY DEF MovesFit, ModelHint, PlainHint
<1>2. s \in Scores /\ white \in BOOLEAN
    BY <1>1, MaybeHolds, MoveFields DEF CallFits, Fits
<1>3. CASE ModelHint(r)
    <2> DEFINE d == Standing(s, Colour(white))
    <2>1. Deserved(s, white, "model")
        BY DEF Deserved
    <2>2. d \in Tellings \ {""} /\ "model" \in Tones \ {""}
        BY <1>2, StandingFavours DEF Tellings, Tones
    <2>3. Favours(s, white, d)
        BY <1>2, StandingFavours
    <2>4. tone' = [tone EXCEPT ![r] = "model"] /\ told' = [told EXCEPT ![r] = d]
          /\ stage' = [stage EXCEPT ![r] = "boundary"] /\ UNCHANGED graded
        BY <1>3 DEF ModelHint, PlayerColour
    <2> HIDE DEF d
    <2>5. tone'[r] = "model" /\ told'[r] = d
        BY <2>4 DEF MovesFit, MoveTypes
    <2> QED BY <1>1, <2>1, <2>2, <2>3, <2>4, <2>5, HintFits
<1>4. CASE PlainHint(r)
    <2>1. PICK manner : Hint(r, manner)
        BY <1>4 DEF PlainHint
    <2> DEFINE t == Comment(grade[r], ClearlyWorse(s, Colour(white)))
               d == Sentence(manner, s, Colour(white), grade[r])
    <2>2. t \in Tones \ {""} /\ d \in Tellings \ {""}
        <3> HIDE DEF s, white
        <3>1. d \in {"you", "opponent", "white", "black", "equal", "nothing"}
            BY <1>2, SentenceFavours
        <3>2. t \in {"praise", "tempered", "blame", "none"}
            BY <1>2, CommentDeserved
        <3> HIDE DEF t, d
        <3> QED BY <3>1, <3>2 DEF Tones, Tellings
    <2>3. Favours(s, white, d) /\ Deserved(s, white, t)
        <3> HIDE DEF s, white
        <3> QED BY <1>2, CommentDeserved, SentenceFavours
    <2>4. tone' = [tone EXCEPT ![r] = t] /\ told' = [told EXCEPT ![r] = d]
          /\ stage' = [stage EXCEPT ![r] = "boundary"] /\ UNCHANGED graded
        BY <1>4, <2>1 DEF PlainHint, Hint, PlayerColour
    <2> HIDE DEF t, d
    <2>5. tone'[r] = t /\ told'[r] = d
        BY <2>4 DEF MovesFit, MoveTypes
    <2> QED BY <1>1, <2>2, <2>3, <2>4, <2>5, HintFits
<1> QED BY <1>3, <1>4

\* A connection is checked out only when one is free, and any may be returned.
LEMMA CheckOutFits ==
    ASSUME PoolFits, NEW r \in DbCalls, CheckOut(r)
    PROVE  connected' \subseteq DbCalls /\ IsFiniteSet(connected')
           /\ Cardinality(connected') <= Connections
<1> USE DEF PoolFits, CheckOut, FreeConnection
<1>1. CASE r \in connected
    <2>1. connected' = connected
        BY <1>1
    <2> QED BY <2>1
<1>2. CASE r \notin connected
    <2>1. Cardinality(connected') = Cardinality(connected) + 1 /\ IsFiniteSet(connected')
        BY <1>2, FS_AddElement
    <2>2. Cardinality(connected) \in Nat
        BY FS_CardinalityType
    <2> QED BY <1>2, <2>1, <2>2
<1> QED BY <1>1, <1>2

LEMMA CheckInFits ==
    ASSUME PoolFits, NEW r, CheckIn(r)
    PROVE  connected' \subseteq DbCalls /\ IsFiniteSet(connected')
           /\ Cardinality(connected') <= Connections
<1> USE DEF PoolFits, CheckIn
<1>1. CASE r \in connected
    <2>1. Cardinality(connected') = Cardinality(connected) - 1 /\ IsFiniteSet(connected')
        BY <1>1, FS_RemoveElement
    <2>2. Cardinality(connected) \in Nat
        BY FS_CardinalityType
    <2> QED BY <2>1, <2>2
<1>2. CASE r \notin connected
    <2>1. connected' = connected
        BY <1>2
    <2> QED BY <2>1
<1> QED BY <1>1, <1>2

\* A step of one request: what it does to the pool, and where a chat waits.
LEMMA PoolMoves ==
    ASSUME PoolFits, stage \in [RouteCalls -> Stages], UNCHANGED enginePool,
           NEW r \in RouteCalls, NEW s, stage' = stage \/ stage' = [stage EXCEPT ![r] = s],
           (r \in DbCalls /\ CheckOut(r)) \/ CheckIn(r) \/ UNCHANGED connected,
           r \in ChatCalls /\ stage'[r] = "model" => r \notin connected'
    PROVE  PoolFits'
<1>1. connected' \subseteq DbCalls /\ IsFiniteSet(connected')
      /\ Cardinality(connected') <= Connections
    BY CheckOutFits, CheckInFits DEF PoolFits
<1>2. \A q \in ChatCalls : stage'[q] = "model" => q \notin connected'
    BY DEF PoolFits, CheckIn, CheckOut
<1> QED BY <1>1, <1>2 DEF PoolFits

\* A request of the other routes leaves the evaluation calls alone.
LEMMA BadgesRest ==
    ASSUME BadgesFit, stage \in [RouteCalls -> Stages], NEW r \in DbCalls, NEW s,
           stage' = stage \/ stage' = [stage EXCEPT ![r] = s], UNCHANGED badges
    PROVE  BadgesFit'
BY DEF BadgesFit

LEMMA EvalSteps ==
    ASSUME LiveMoveInv, NEW r \in EvalCalls, AskEval(r) \/ AnswerEval(r)
    PROVE  LiveMoveInv'
<1> USE DEF LiveMoveInv
<1>0. stage \in [RouteCalls -> Stages] /\ DOMAIN board = EvalCalls /\ DOMAIN badge = EvalCalls
      /\ BadgeFits(stage[r], board[r], badge[r])
    BY DEF MovesFit, MoveTypes, BadgesFit
<1>1. PICK s \in {"engine", "served"} : stage' = [stage EXCEPT ![r] = s]
                                      /\ (s = "engine" <=> AskEval(r))
                                      /\ stage[r] # "served" /\ (stage[r] = "new" <=> AskEval(r))
    BY DEF AskEval, AnswerEval
<1>2. MovesFit'
    BY <1>1, OtherCallMoves DEF AskEval, AnswerEval, Stages
<1>3. PoolFits'
    <2>1. UNCHANGED <<connected, enginePool>>
        BY DEF AskEval, AnswerEval
    <2>2. \A q \in ChatCalls : stage'[q] = stage[q]
        BY <1>0, <1>1
    <2> QED BY <2>1, <2>2 DEF PoolFits
<1>4. /\ DOMAIN board' = EvalCalls /\ DOMAIN badge' = EvalCalls
      /\ \A q \in EvalCalls \ {r} : board'[q] = board[q] /\ badge'[q] = badge[q]
                                   /\ stage'[q] = stage[q]
    BY <1>0, <1>1 DEF AskEval, AnswerEval
<1>5. BadgeFits(stage[r], board[r], badge[r])'
    <2>1. CASE AskEval(r)
        <3>1. PICK b \in Boards : board' = [board EXCEPT ![r] = <<b>>] /\ UNCHANGED badge
            BY <2>1 DEF AskEval, Boards
        <3>2. <<b>> \in Maybe(Boards) /\ <<b>> # <<>>
            BY MaybeMakes
        <3> QED BY <1>0, <1>1, <2>1, <3>1, <3>2 DEF BadgeFits
    <2>2. CASE AnswerEval(r)
        <3>1. board' = board /\ board[r] # <<>> /\ board[r] \in Maybe(Boards)
            BY <1>0, <1>1, <2>2 DEF AnswerEval, BadgeFits
        <3>2. CASE UNCHANGED badge
            BY <1>0, <1>1, <2>2, <3>1, <3>2 DEF BadgeFits
        <3>3. CASE badge' = [badge EXCEPT ![r] =
                              <<BadgeScore(board[r][1].score, board[r][1].whiteToMove)>>]
            BY <1>0, <1>1, <2>2, <3>1, <3>3 DEF BadgeFits, AnswerEval
        <3> QED BY <2>2, <3>2, <3>3 DEF AnswerEval
    <2> QED BY <2>1, <2>2
<1>6. BadgesFit'
    BY <1>0, <1>1, <1>4, <1>5 DEF BadgesFit
<1> QED BY <1>2, <1>3, <1>6

\* The steps of a request that holds a connection, by what they change.
LEMMA DbSteps ==
    ASSUME LiveMoveInv, DbNext
    PROVE  LiveMoveInv'
<1> USE DEF LiveMoveInv
<1>0. stage \in [RouteCalls -> Stages]
    BY DEF MovesFit, MoveTypes
<1>1. ASSUME NEW r \in DbCalls, NEW s, MovesFit',
             stage' = stage \/ stage' = [stage EXCEPT ![r] = s], UNCHANGED <<enginePool, badges>>,
             CheckOut(r) \/ CheckIn(r) \/ UNCHANGED connected,
             r \in ChatCalls /\ stage'[r] = "model" => r \notin connected'
      PROVE  LiveMoveInv'
    BY <1>0, <1>1, PoolMoves, BadgesRest
<1>2. ASSUME NEW r \in DbCalls, Arrive(r) PROVE LiveMoveInv'
    <2>1. PICK s \in {"engine", "admission", "work"} : stage' = [stage EXCEPT ![r] = s]
                                           /\ (r \in LiveCalls \/ UNCHANGED move)
        BY <1>2 DEF Arrive
    <2>2. MovesFit'
        BY <1>2, <2>1, ArrivalFits, OtherCallMoves DEF Arrive, Stages
    <2>3. UNCHANGED <<enginePool, badges>> /\ CheckOut(r) /\ stage'[r] # "model"
        BY <1>0, <1>2, <2>1 DEF Arrive
    <2> QED BY <1>1, <2>1, <2>2, <2>3
<1>3. ASSUME NEW r \in DbCalls, Starves(r) PROVE LiveMoveInv'
    <2>1. MovesFit'
        BY <1>3, OnwardMoves, OtherCallMoves DEF Starves, Stages
    <2>2. stage'[r] # "model"
        BY <1>0, <1>3 DEF Starves
    <2> QED BY <1>1, <1>3, <2>1, <2>2 DEF Starves
<1>4. ASSUME NEW r \in LiveCalls,
             EvaluateAfter(r) \/ GradeMove(r) \/ ReadPlayer(r) \/ ModelHint(r) \/ PlainHint(r)
             \/ AnswerMove(r)
      PROVE  LiveMoveInv'
    <2>1. MovesFit'
        BY <1>4, EvaluationFits, GradeFits, HintsFit, OnwardMoves DEF ReadPlayer, AnswerMove
    <2>2. PICK s : stage' = [stage EXCEPT ![r] = s]
        BY <1>4 DEF EvaluateAfter, GradeMove, ReadPlayer, ModelHint, PlainHint, AnswerMove
    <2>3. /\ UNCHANGED <<enginePool, badges>>
          /\ CheckOut(r) \/ CheckIn(r) \/ UNCHANGED connected
        BY <1>4 DEF EvaluateAfter, GradeMove, ReadPlayer, ModelHint, PlainHint, AnswerMove
    <2> QED BY <1>1, <2>1, <2>2, <2>3
<1>5. ASSUME NEW r \in LiveCalls \union ChatCalls, Admission(r) PROVE LiveMoveInv'
    <2>1. PICK s \in {"reload", "model", "served"} : stage' = [stage EXCEPT ![r] = s]
             /\ CheckIn(r) /\ (r \in LiveCalls => s = "reload")
        BY <1>5 DEF Admission, Commit
    <2>2. MovesFit'
        BY <1>5, <2>1, OnwardMoves, OtherCallMoves DEF Admission, Stages
    <2>3. r \notin connected' /\ UNCHANGED <<enginePool, badges>>
        BY <1>5, <2>1 DEF Admission, CheckIn
    <2> QED BY <1>1, <2>1, <2>2, <2>3
<1>6. ASSUME NEW r \in ChatCalls, ChatReply(r) \/ StoreChat(r) PROVE LiveMoveInv'
    <2>1. PICK s \in {"store", "served"} : stage' = stage \/ stage' = [stage EXCEPT ![r] = s]
        BY <1>6 DEF ChatReply, StoreChat
    <2>2. UNCHANGED <<enginePool, badges, graded, said>>
          /\ (CheckOut(r) \/ CheckIn(r) \/ UNCHANGED connected)
        BY <1>6 DEF ChatReply, StoreChat
    <2>3. stage'[r] # "model"
        BY <1>0, <1>6 DEF ChatReply, StoreChat
    <2>4. MovesFit'
        <3>1. CASE stage' = stage
            BY <2>2, <3>1 DEF MovesFit, MoveTypes, CallFits
        <3>2. CASE stage' = [stage EXCEPT ![r] = s]
            BY <2>2, <3>2, OtherCallMoves DEF Stages
        <3> QED BY <2>1, <3>1, <3>2
    <2> QED BY <1>1, <2>1, <2>2, <2>3, <2>4
<1>7. ASSUME NEW r \in OtherCalls, Works(r) PROVE LiveMoveInv'
    <2>1. MovesFit'
        BY <1>7, OtherCallMoves DEF Works, Stages
    <2> QED BY <1>1, <1>7, <2>1 DEF Works
<1> QED BY <1>2, <1>3, <1>4, <1>5, <1>6, <1>7 DEF DbNext

LEMMA LiveMoveStep == LiveMoveInv /\ [LiveMoveNext]_liveVars => LiveMoveInv'
<1>1. LiveMoveInv /\ EvalNext => LiveMoveInv'
    BY EvalSteps DEF EvalNext
<1>2. LiveMoveInv /\ UNCHANGED liveVars => LiveMoveInv'
    BY DEF LiveMoveInv, MovesFit, MoveTypes, CallFits, PoolFits, BadgesFit, liveVars
<1> QED BY <1>1, <1>2, DbSteps DEF LiveMoveNext

LEMMA LiveMoveStarts == LiveMoveInit => LiveMoveInv
<1> SUFFICES ASSUME LiveMoveInit PROVE LiveMoveInv
    OBVIOUS
<1>1. \A S : <<>> \in Maybe(S)
    BY DEF Maybe
<1>2. MovesFit
    BY <1>1 DEF LiveMoveInit, MovesFit, MoveTypes, CallFits, Fits, Earned, Stages, Tones, Tellings
<1>3. PoolFits
    <2>1. IsFiniteSet({}) /\ Cardinality({}) <= Connections
        BY FS_EmptySet
    <2>2. \A r \in ChatCalls : stage[r] # "model"
        BY DEF LiveMoveInit
    <2> QED BY <2>1, <2>2 DEF LiveMoveInit, PoolFits
<1>4. BadgesFit
    BY <1>1 DEF LiveMoveInit, BadgesFit, BadgeFits
<1> QED BY <1>2, <1>3, <1>4 DEF LiveMoveInv

\* What is known of every request to /live/move, /chat and /engine/eval and of the
\* connections that are out, for any set of requests, scores and connections.
THEOREM LiveMoveInvariance == LiveMoveSpec => []LiveMoveInv
BY LiveMoveStarts, LiveMoveStep, PTL DEF LiveMoveSpec

LEMMA BadgeIsWhites ==
    ASSUME NEW b \in Boards
    PROVE  (BadgeScore(b.score, b.whiteToMove) > 0) <=>
              (b.score.value > 0 \/ (b.score = Checkmate /\ ~b.whiteToMove))
<1>1. b.whiteToMove \in BOOLEAN /\ b.score \in Scores \union {Checkmate}
    BY DEF Boards
<1>2. CASE b.score \in Scores
    <2>1. b.score # Checkmate
        BY <1>2, ScoreFields DEF Checkmate
    <2> QED BY <1>1, <1>2, <2>1, ScoreFields DEF BadgeScore
<1>3. CASE b.score = Checkmate
    BY <1>1, <1>3 DEF BadgeScore, Checkmate
<1> QED BY <1>1, <1>2, <1>3

\* move_quality.py 3-8, live_move_pipeline.py 174-185, 429-436, server.py
\* 1480-1493, 1932-1939: a move is blamed only when its player stands worse after
\* it, the hint and the badge name the side the score favours, nobody who stands
\* clearly worse is praised, and a chat keeps no connection while the model is
\* asked, provided no centipawn score reaches the value of a mate.
THEOREM LiveMoveIsSafe == ASSUME MatesOutrank PROVE LiveMoveSpec => []LiveMoveSafe
<1>1. LiveMoveInv => LiveMoveSafe
    <2> SUFFICES ASSUME LiveMoveInv PROVE LiveMoveSafe
        OBVIOUS
    <2> USE DEF LiveMoveInv
    <2>1. ASSUME NEW r \in LiveCalls
          PROVE  /\ CallFits(r) /\ tone[r] \in Tones /\ told[r] \in Tellings
                 /\ move[r] # <<>> => move[r][1] \in CoachedMoves
                 /\ basis[r] # <<>> => basis[r][1] \in Scores
        BY MaybeHolds DEF MovesFit, MoveTypes
    <2>2. LiveMoveTypeOK
        <3>1. \A r \in EvalCalls : stage[r] # "new" => board[r] # <<>>
            BY DEF BadgesFit, BadgeFits
        <3>2. \A r \in LiveCalls : stage[r] = "served" => told[r] # "" /\ tone[r] # ""
            BY <2>1 DEF CallFits, Fits
        <3> QED BY <2>1, <3>1, <3>2 DEF LiveMoveTypeOK, MovesFit, MoveTypes, PoolFits, Tones, Tellings
    <2>3. BlameIsEarned
        <3> SUFFICES ASSUME NEW r \in LiveCalls, grade[r] \in Blames
                     PROVE  LET m == move[r][1]
                            IN /\ m.fenBefore = "joins" /\ r \in evaluated
                               /\ WorseFor(Colour(m.white), m.after, m.before)
            BY DEF BlameIsEarned
        <3> DEFINE m == move[r][1]
        <3>1. Earned(move[r], basis[r], r \in evaluated, grade[r]) /\ grade[r] # "unknown"
            BY <2>1 DEF CallFits, Fits, Blames
        <3>2. m \in CoachedMoves
            BY <2>1, <3>1 DEF Earned
        <3> QED BY <3>1, <3>2, MoveFields, BlameMeansWorse DEF Earned
    <2>4. AheadIsWhoItSays
        BY <2>1 DEF AheadIsWhoItSays, CallFits, Fits, Favours
    <2>5. PraiseFitsThePosition
        BY <2>1 DEF PraiseFitsThePosition, CallFits, Fits, Deserved
    <2>6. BadgeFavoursTheBetter
        <3> SUFFICES ASSUME NEW r \in EvalCalls, badge[r] # <<>>
                     PROVE  LET b == board[r][1]
                            IN (badge[r][1] > 0) <=>
                               (b.score.value > 0 \/ (b.score = Checkmate /\ ~b.whiteToMove))
            BY DEF BadgeFavoursTheBetter
        <3>1. board[r][1] \in Boards
              /\ badge[r][1] = BadgeScore(board[r][1].score, board[r][1].whiteToMove)
            BY MaybeHolds DEF BadgesFit, BadgeFits
        <3> QED BY <3>1, BadgeIsWhites
    <2>7. ChatsLeaveThePool
        BY DEF ChatsLeaveThePool, PoolFits
    <2> QED BY <2>2, <2>3, <2>4, <2>5, <2>6, <2>7 DEF LiveMoveSafe
<1> QED BY <1>1, LiveMoveInvariance, PTL

HIDE LiveMoveAssumption DEF RouteCalls, DbCalls, Goes, graded, said, badges

-----------------------------------------------------------------------------
(* LlmCall: one attempt is metered once, at a price that fits *)

\* What an attempt and its meter hold.
CallReports == {{}} \union {{u} : u \in Usages}
Attempts ==
    [mode : {"full", "stream"}, at : {"idle", "reading", "yielded", "ended"}, frames : Nat,
     bytes : Nat, kept : Nat, words : Nat, usage : CallReports,
     outcome : {"none", "ok", "empty", "aborted", "timeout", "http_error"}, odd : BOOLEAN,
     result : {"none", "text", "error", "config"}]

USE LlmCallAssumption

\* What is kept is at most what has arrived, and fits the cap of its mode.
Capped(c) ==
    /\ c.kept <= c.bytes /\ c.words <= c.kept
    /\ c.mode = "stream" => c.kept <= ByteCap
    /\ c.mode = "full" => \E n \in ChunkSizes \union {0} : c.kept <= ByteCap + n

\* An attempt under way has observed nothing, has not passed the cap, and has seen no
\* frame that raises; the stream waits at its yield only with something kept.
UnderWay ==
    /\ llm.at = "idle" => llm = Attempt
    /\ llm.at # "ended" => meter = Unmetered /\ llm.bytes <= ByteCap /\ ~llm.odd
                           /\ llm.outcome = "none"
    /\ llm.at = "yielded" => llm.kept > 0

Priced(prompt, cost) == cost <= prompt * MissPrice /\ cost >= prompt * HitPrice

Metered ==
    /\ meter.calls \in {0, 1} /\ meter.errors \in {0, 1}
    /\ Priced(meter.prompt, meter.cost)
    /\ SpendSeen /\ OkMeansServed

LlmInv == llm \in Attempts /\ Capped(llm) /\ UnderWay /\ Metered

\* Whatever split a gateway reports, the price lies between the two rates.
LEMMA SplitPriced ==
    ASSUME NEW h \in Nat, NEW m \in Nat
    PROVE  Priced(h + m, h * HitPrice + m * MissPrice)
<1>1. h * HitPrice <= h * MissPrice /\ m * HitPrice <= m * MissPrice
    OBVIOUS
<1>2. (h + m) * MissPrice = h * MissPrice + m * MissPrice
      /\ (h + m) * HitPrice = h * HitPrice + m * HitPrice
    OBVIOUS
<1> DEFINE a == h * HitPrice
           b == h * MissPrice
           c == m * HitPrice
           d == m * MissPrice
<1>3. a \in Nat /\ b \in Nat /\ c \in Nat /\ d \in Nat
    OBVIOUS
<1>4. Priced(h + m, a + d) <=> a + d <= b + d /\ a + d >= a + c
    BY <1>2 DEF Priced
<1>5. a <= b /\ c <= d
    BY <1>1
<1> HIDE DEF a, b, c, d
<1>6. a + d <= b + d /\ a + d >= a + c
    BY <1>3, <1>5
<1>7. Priced(h + m, a + d)
    BY <1>4, <1>6
<1> QED BY <1>7 DEF a, d

LEMMA WholePriced ==
    ASSUME NEW p \in Nat
    PROVE  Priced(p, p * MissPrice)
<1>1. Priced(0 + p, 0 * HitPrice + p * MissPrice)
    BY SplitPriced
<1>2. p * MissPrice \in Nat /\ 0 * HitPrice = 0
    OBVIOUS
<1> DEFINE c == p * MissPrice
<1> HIDE DEF c
<1>3. 0 + c = c /\ 0 + p = p
    BY <1>2 DEF c
<1> QED BY <1>1, <1>2, <1>3 DEF c

LEMMA UsagePriced ==
    ASSUME NEW u \in Usages
    PROVE  Priced(u.prompt, PromptCost(u.prompt, CacheSplit(u)))
<1>1. u.prompt \in {0, 3} /\ u.hit \in {-1, 0, 2, 5} /\ u.miss \in {-1, 1, 3}
    BY DEF Usages, Unreported
<1> DEFINE s == CacheSplit(u)
<1>2. s.hit \in Nat /\ s.miss \in Nat
    BY <1>1 DEF CacheSplit, Unreported
<1>3. CASE u.prompt > 0 /\ s.hit + s.miss = u.prompt
    <2>1. Priced(s.hit + s.miss, s.hit * HitPrice + s.miss * MissPrice)
        <3> HIDE DEF s
        <3> QED BY <1>2, SplitPriced
    <2> QED BY <1>3, <2>1 DEF PromptCost
<1>4. CASE ~(u.prompt > 0 /\ s.hit + s.miss = u.prompt)
    <2>1. PromptCost(u.prompt, s) = u.prompt * MissPrice
        <3> HIDE DEF s
        <3> QED BY <1>4 DEF PromptCost
    <2> QED BY <1>1, <2>1, WholePriced
<1> QED BY <1>3, <1>4

-----------------------------------------------------------------------------
(* The end of an attempt *)

\* An attempt that is over: what its `finally` records.
LEMMA EndsMetered ==
    ASSUME meter = Unmetered, NEW c \in Attempts, Capped(c),
           NEW out \in {"ok", "aborted", "timeout", "http_error"}, NEW raised \in BOOLEAN,
           out = "aborted" => c.kept > 0, out = "ok" /\ raised => c.odd,
           Ends(c, out, raised)
    PROVE  LlmInv'
<1> DEFINE final == Outcome(c, out)
           u == Reported(c, final)
           result == IF raised \/ (c.mode = "full" /\ c.words = 0) THEN "error"
                     ELSE IF c.kept > 0 THEN "text" ELSE "none"
<1>1. /\ c.kept \in Nat /\ c.words \in Nat /\ c.bytes \in Nat /\ c.usage \in CallReports
      /\ c.mode \in {"full", "stream"} /\ c.odd \in BOOLEAN
    BY DEF Attempts
<1>2. final \in {"ok", "empty", "aborted", "timeout", "http_error"}
    BY DEF Outcome
<1>3. final \in {"ok", "aborted"} => c.kept > 0
    BY <1>1 DEF Outcome, Capped
<1>4. final = "ok" => result = "text" \/ c.odd
    BY <1>1 DEF Outcome, Capped
<1>5. /\ u.prompt \in Nat /\ Priced(u.prompt, PromptCost(u.prompt, CacheSplit(u)))
      /\ Billable(final) /\ c.usage = {} =>
            u.prompt = 2 /\ u.completion = EstimateTokens(c.kept) /\ u.hit = Unreported
    <2>1. CASE Billable(final) /\ c.usage = {}
        <3>1. c.kept > 0
            BY <1>3, <2>1 DEF Billable
        <3>2. NoUsage \in [prompt : Int, completion : Int, hit : Int, miss : Int]
            BY DEF NoUsage, Unreported
        <3>3. EstimateTokens(c.kept) \in Int
            BY <1>1 DEF EstimateTokens
        <3>4. EstimateTokens(PromptLength) = 2
            BY DEF EstimateTokens, PromptLength
        <3> DEFINE e == [NoUsage EXCEPT !.prompt = 2, !.completion = EstimateTokens(c.kept)]
        <3>5. e.prompt = 2 /\ e.completion = EstimateTokens(c.kept) /\ e.hit = NoUsage.hit
            BY <3>2, <3>3
        <3>6. u = e
            BY <2>1, <3>1, <3>4 DEF Reported
        <3>7. NoUsage.hit = Unreported
            BY DEF NoUsage
        <3> HIDE DEF u, e
        <3>8. PromptCost(2, CacheSplit(u)) = 2 * MissPrice
            BY <3>5, <3>6, <3>7 DEF PromptCost, CacheSplit
        <3> QED BY <3>5, <3>6, <3>7, <3>8, WholePriced
    <2>2. CASE ~(Billable(final) /\ c.usage = {})
        <3>1. u = IF c.usage = {} THEN NoUsage ELSE CHOOSE x \in c.usage : TRUE
            BY <2>2 DEF Reported
        <3>2. NoUsage \in [prompt : {0, 3}, completion : {0, 1}, hit : {-1, 0, 2, 5}, miss : {-1, 1, 3}]
            BY DEF NoUsage, Unreported
        <3>3. u.prompt \in Nat /\ Priced(u.prompt, PromptCost(u.prompt, CacheSplit(u)))
            <4>1. CASE c.usage = {}
                <5>1. u = NoUsage
                    BY <3>1, <4>1
                <5>2. u.prompt = 0
                    BY <5>1 DEF NoUsage
                <5>3. PromptCost(0, CacheSplit(u)) = 0 * MissPrice
                    BY DEF PromptCost
                <5> HIDE DEF u
                <5> QED BY <5>2, <5>3, WholePriced
            <4>2. CASE c.usage # {}
                <5>1. PICK x \in Usages : c.usage = {x}
                    BY <1>1, <4>2 DEF CallReports
                <5>2. u = x
                    BY <3>1, <5>1
                <5>3. x.prompt \in {0, 3}
                    BY DEF Usages
                <5> HIDE DEF u
                <5> QED BY <5>2, <5>3, UsagePriced
            <4> QED BY <4>1, <4>2
        <3> QED BY <2>2, <3>3
    <2> QED BY <2>1, <2>2
<1>6. EstimateTokens(c.kept) > 0
    BY <1>1 DEF EstimateTokens
<1>7. meter' = [calls |-> 1,
                prompt |-> IF Billable(final) THEN u.prompt ELSE 0,
                completion |-> IF Billable(final) THEN u.completion ELSE 0,
                cost |-> IF Billable(final) THEN PromptCost(u.prompt, CacheSplit(u)) ELSE 0,
                errors |-> IF final = "ok" THEN 0 ELSE 1]
    BY DEF Ends, Observed, Unmetered
<1>8. llm' = [c EXCEPT !.at = "ended", !.outcome = final, !.result = result]
    BY DEF Ends
<1> HIDE DEF final, u, result
<1>9. result \in {"none", "text", "error", "config"}
    BY DEF result
<1>10. /\ llm' \in Attempts /\ llm'.at = "ended" /\ llm'.outcome = final /\ llm'.result = result
       /\ llm'.usage = c.usage /\ llm'.kept = c.kept /\ llm'.words = c.words
       /\ llm'.bytes = c.bytes /\ llm'.mode = c.mode /\ llm'.odd = c.odd
    BY <1>2, <1>8, <1>9 DEF Attempts
<1>11. Capped(llm')
    BY <1>10 DEF Capped
<1>12. UnderWay'
    BY <1>10 DEF UnderWay
<1>13. Priced(meter'.prompt, meter'.cost)
    <2>1. Priced(0, 0)
        BY DEF Priced
    <2> QED BY <1>5, <1>7, <2>1
<1>14. SpendSeen'
    <2>1. ASSUME final \in {"ok", "aborted"}, c.usage = {}
          PROVE  meter'.prompt > 0 /\ meter'.completion > 0 /\ meter'.cost > 0
        <3>1. Billable(final)
            BY <2>1 DEF Billable
        <3>2. meter'.prompt = 2 /\ meter'.completion > 0
              /\ meter'.cost = PromptCost(2, CacheSplit(u)) /\ u.hit = Unreported
            BY <1>5, <1>6, <1>7, <2>1, <3>1
        <3>3. PromptCost(2, CacheSplit(u)) = 2 * MissPrice
            BY <3>2 DEF PromptCost, CacheSplit
        <3> QED BY <3>2, <3>3
    <2>2. ASSUME final \in {"ok", "aborted"}, c.usage # {}, meter'.prompt = 0
          PROVE  \E x \in c.usage : x.prompt = 0
        <3>1. u \in c.usage
            BY <2>2 DEF u, Reported
        <3>2. u.prompt = 0
            BY <1>7, <2>2 DEF Billable
        <3> QED BY <3>1, <3>2
    <2>3. final = "empty" /\ c.kept > 0 => c.words = 0
        BY <1>1, <2>1 DEF final, Outcome
    <2>4. \/ final \in {"ok", "aborted"} /\ c.usage = {}
          \/ final \in {"ok", "aborted"} /\ c.usage # {}
          \/ final \in {"empty", "timeout", "http_error"}
        BY <1>2
    <2> QED BY <1>10, <2>1, <2>2, <2>3, <2>4 DEF SpendSeen
<1>15. OkMeansServed'
    BY <1>4, <1>10 DEF OkMeansServed, result, final
<1> QED BY <1>7, <1>10, <1>11, <1>12, <1>13, <1>14, <1>15 DEF LlmInv, Metered

-----------------------------------------------------------------------------
(* The attempt *)

\* A step of an attempt under way that ends nothing.
LEMMA GoesOnMetered ==
    ASSUME LlmInv, llm.at # "ended", meter' = meter, llm' \in Attempts, Capped(llm'),
           llm'.at \in {"reading", "yielded"}, llm'.bytes <= ByteCap, ~llm'.odd,
           llm'.outcome = "none", llm'.at = "yielded" => llm'.kept > 0
    PROVE  LlmInv'
BY DEF LlmInv, UnderWay, Metered, SpendSeen, OkMeansServed

LEMMA FrameIsRead ==
    ASSUME llm \in Attempts
    PROVE  /\ FrameRead \in Attempts /\ FrameRead.at = llm.at /\ FrameRead.mode = llm.mode
           /\ FrameRead.bytes = llm.bytes /\ FrameRead.kept = llm.kept
           /\ FrameRead.words = llm.words /\ FrameRead.usage = llm.usage
           /\ FrameRead.odd = llm.odd /\ FrameRead.outcome = llm.outcome
BY DEF FrameRead, Attempts

\* A content delta: within the cap it is kept, beyond it the attempt ends, the full
\* call with the delta and the stream without it.
LEMMA ContentMetered ==
    ASSUME LlmInv, Content
    PROVE  LlmInv'
<1>1. /\ llm \in Attempts /\ Capped(llm) /\ UnderWay /\ llm.at = "reading" /\ meter = Unmetered
      /\ llm.bytes \in Nat /\ llm.kept \in Nat /\ llm.words \in Nat /\ llm.bytes <= ByteCap
      /\ ~llm.odd /\ llm.outcome = "none" /\ llm.mode \in {"full", "stream"}
    BY DEF LlmInv, Content, Reads, UnderWay, Attempts
<1> DEFINE kept(n, text, total) ==
              [FrameRead EXCEPT !.bytes = total, !.kept = @ + n, !.words = @ + text]
           lost(total) == [FrameRead EXCEPT !.bytes = total]
<1>2. PICK n \in ChunkSizes, blank \in BOOLEAN :
         LET total == llm.bytes + n
             text == IF blank THEN 0 ELSE n
             read == IF KeepsChunk(total) THEN kept(n, text, total) ELSE lost(total)
         IN  IF total > ByteCap THEN Ends(read, "ok", FALSE)
             ELSE /\ llm' = IF llm.mode = "stream" THEN [read EXCEPT !.at = "yielded"] ELSE read
                  /\ UNCHANGED meter
    BY DEF Content
<1>3. PICK total, text : total = llm.bytes + n /\ text = (IF blank THEN 0 ELSE n)
    OBVIOUS
<1>4. n \in Nat /\ n > 0 /\ total \in Nat /\ text \in Nat /\ text <= n
    BY <1>1, <1>3
<1> DEFINE read == IF KeepsChunk(total) THEN kept(n, text, total) ELSE lost(total)
<1>5. /\ kept(n, text, total) \in Attempts /\ kept(n, text, total).bytes = total
      /\ kept(n, text, total).kept = llm.kept + n /\ kept(n, text, total).words = llm.words + text
      /\ kept(n, text, total).at = "reading" /\ kept(n, text, total).mode = llm.mode
      /\ kept(n, text, total).odd = llm.odd /\ kept(n, text, total).outcome = "none"
    <2>1. PICK k, w : k = llm.kept + n /\ w = llm.words + text
        OBVIOUS
    <2>2. k \in Nat /\ w \in Nat
        BY <1>1, <1>4, <2>1
    <2>3. kept(n, text, total) = [FrameRead EXCEPT !.bytes = total, !.kept = k, !.words = w]
        BY <1>1, <2>1, FrameIsRead
    <2> QED BY <1>1, <1>4, <2>1, <2>2, <2>3, FrameIsRead DEF Attempts
<1>6. /\ lost(total) \in Attempts /\ lost(total).bytes = total
      /\ lost(total).kept = llm.kept /\ lost(total).words = llm.words
      /\ lost(total).at = "reading" /\ lost(total).mode = llm.mode
      /\ lost(total).odd = llm.odd /\ lost(total).outcome = "none"
    BY <1>1, <1>4, FrameIsRead DEF Attempts
<1>7. read \in Attempts /\ read.bytes = total /\ read.at = "reading" /\ ~read.odd
      /\ read.outcome = "none" /\ read.mode = llm.mode
    <2> HIDE DEF kept, lost
    <2> QED BY <1>1, <1>5, <1>6
<1>8. Capped(read)
    <2> HIDE DEF kept, lost, read
    <2>1. CASE KeepsChunk(total)
        <3>1. read = kept(n, text, total)
            BY <2>1 DEF read
        <3>2. read.kept = llm.kept + n /\ read.words = llm.words + text
            BY <1>5, <3>1
        <3>3. llm.kept + n <= ByteCap + n /\ llm.kept + n <= total
            BY <1>1, <1>3, <1>4 DEF Capped
        <3>4. llm.mode = "stream" => total <= ByteCap
            BY <2>1 DEF KeepsChunk
        <3> QED BY <1>1, <1>4, <1>7, <3>2, <3>3, <3>4 DEF Capped
    <2>2. CASE ~KeepsChunk(total)
        <3>1. read = lost(total)
            BY <2>2 DEF read
        <3> QED BY <1>1, <1>3, <1>4, <1>6, <1>7, <2>2, <3>1 DEF Capped, KeepsChunk
    <2> QED BY <2>1, <2>2
<1>9. CASE total > ByteCap
    <2>1. Ends(read, "ok", FALSE)
        BY <1>2, <1>3, <1>9
    <2> HIDE DEF read
    <2> QED BY <1>1, <1>7, <1>8, <2>1, EndsMetered
<1>10. CASE total <= ByteCap
    <2>1. /\ llm' = IF llm.mode = "stream" THEN [read EXCEPT !.at = "yielded"] ELSE read
          /\ UNCHANGED meter
        <3>1. ~(total > ByteCap)
            BY <1>4, <1>10
        <3> QED BY <1>2, <1>3, <3>1, Zenon
    <2>2. read.kept > 0
        <3>1. KeepsChunk(total)
            BY <1>10 DEF KeepsChunk
        <3>2. read = kept(n, text, total)
            BY <3>1
        <3> HIDE DEF kept, lost, read
        <3> QED BY <1>1, <1>4, <1>5, <3>2
    <2> HIDE DEF read
    <2>3. /\ llm' \in Attempts /\ llm'.bytes = total /\ llm'.kept = read.kept
          /\ llm'.words = read.words /\ llm'.mode = read.mode /\ ~llm'.odd
          /\ llm'.outcome = "none" /\ llm'.at \in {"reading", "yielded"}
        BY <1>7, <2>1 DEF Attempts
    <2>4. Capped(llm')
        BY <1>7, <1>8, <2>3 DEF Capped
    <2> QED BY <1>1, <1>10, <2>1, <2>2, <2>3, <2>4, GoesOnMetered
<1> QED BY <1>1, <1>4, <1>9, <1>10

LEMMA LlmStep == LlmInv /\ [LlmNext]_llmVars => LlmInv'
<1> SUFFICES ASSUME LlmInv, [LlmNext]_llmVars PROVE LlmInv'
    OBVIOUS
<1>0. /\ llm \in Attempts /\ Capped(llm) /\ UnderWay /\ Metered
      /\ llm.kept \in Nat /\ llm.bytes \in Nat /\ llm.words \in Nat
    BY DEF LlmInv, Attempts
<1>1. CASE Unconfigured
    <2>1. llm = Attempt /\ meter = Unmetered
        BY <1>0, <1>1 DEF Unconfigured, UnderWay
    <2>2. /\ llm' \in Attempts /\ llm'.at = "ended" /\ llm'.outcome = "none"
          /\ llm'.kept = llm.kept /\ llm'.words = llm.words /\ llm'.bytes = llm.bytes
          /\ llm'.mode = llm.mode
        BY <1>0, <1>1, <2>1 DEF Unconfigured, Attempts, UnderWay
    <2>3. llm.outcome = "none"
        BY <2>1 DEF Attempt
    <2>4. llm.kept = 0 /\ meter' = meter
        BY <1>1, <2>1 DEF Attempt, Unconfigured
    <2>5. Capped(llm')
        BY <1>0, <2>2 DEF Capped
    <2>6. UnderWay'
        BY <2>2 DEF UnderWay
    <2>7. SpendSeen' /\ OkMeansServed'
        BY <2>2, <2>4 DEF SpendSeen, OkMeansServed
    <2>8. Metered'
        BY <1>0, <2>4, <2>7 DEF Metered
    <2> QED BY <2>2, <2>5, <2>6, <2>8 DEF LlmInv
<1>2. ASSUME NEW mode \in {"full", "stream"}, OpenCall(mode) PROVE LlmInv'
    <2>1. llm = Attempt /\ meter' = meter /\ llm.at = "idle"
        BY <1>0, <1>2 DEF OpenCall, UnderWay
    <2>2. llm.kept = 0 /\ llm.bytes = 0 /\ llm.words = 0 /\ ~llm.odd /\ llm.outcome = "none"
        BY <2>1 DEF Attempt
    <2>3. /\ llm' \in Attempts /\ llm'.at = "reading" /\ llm'.mode = mode /\ llm'.kept = 0
          /\ llm'.bytes = 0 /\ llm'.words = 0 /\ ~llm'.odd /\ llm'.outcome = "none"
        BY <1>0, <1>2, <2>2 DEF OpenCall, Attempts
    <2>4. Capped(llm')
        BY <2>3 DEF Capped
    <2> QED BY <2>1, <2>3, <2>4, GoesOnMetered
<1>3. CASE Resume
    <2>1. /\ llm' \in Attempts /\ llm'.at = "reading" /\ llm'.mode = llm.mode
          /\ llm'.kept = llm.kept /\ llm'.bytes = llm.bytes /\ llm'.words = llm.words
          /\ llm'.odd = llm.odd /\ llm'.outcome = llm.outcome /\ llm.at = "yielded"
        BY <1>0, <1>3 DEF Resume, Attempts
    <2>2. Capped(llm')
        BY <1>0, <2>1 DEF Capped
    <2> QED BY <1>0, <1>3, <2>1, <2>2, GoesOnMetered DEF Resume, UnderWay
<1>4. CASE Abandon
    BY <1>0, <1>4, EndsMetered DEF Abandon, UnderWay
<1>5. CASE UsageFrame
    <2>1. PICK u \in CallReports : llm' = [FrameRead EXCEPT !.usage = u]
        BY <1>5 DEF UsageFrame, CallReports
    <2>2. /\ llm' \in Attempts /\ llm'.at = llm.at /\ llm'.mode = llm.mode
          /\ llm'.kept = llm.kept /\ llm'.bytes = llm.bytes /\ llm'.words = llm.words
          /\ llm'.odd = llm.odd /\ llm'.outcome = llm.outcome
        BY <1>0, <2>1, FrameIsRead DEF Attempts
    <2>3. Capped(llm')
        BY <1>0, <2>2 DEF Capped
    <2> QED BY <1>0, <1>5, <2>2, <2>3, GoesOnMetered DEF UsageFrame, Reads, UnderWay
<1>6. CASE Noise
    <2>1. Capped(FrameRead)
        BY <1>0, FrameIsRead DEF Capped
    <2> QED BY <1>0, <1>6, <2>1, FrameIsRead, GoesOnMetered DEF Noise, Reads, UnderWay
<1>7. CASE Scalar
    <2> DEFINE c == [FrameRead EXCEPT !.odd = TRUE]
    <2>1. /\ c \in Attempts /\ c.mode = llm.mode /\ c.odd
          /\ c.kept = llm.kept /\ c.bytes = llm.bytes /\ c.words = llm.words
        BY <1>0, FrameIsRead DEF Attempts
    <2>2. Ends(c, "ok", TRUE) /\ meter = Unmetered
        BY <1>0, <1>7 DEF Scalar, Reads, UnderWay
    <2> HIDE DEF c
    <2>3. Capped(c)
        BY <1>0, <2>1 DEF Capped
    <2> QED BY <2>1, <2>2, <2>3, EndsMetered
<1>8. CASE StreamOver
    BY <1>0, <1>8, EndsMetered DEF StreamOver, UnderWay
<1>9. CASE Refused \/ Broken
    BY <1>0, <1>9, EndsMetered DEF Refused, Broken, UnderWay
<1>10. CASE UNCHANGED llmVars
    BY <1>10 DEF llmVars, LlmInv, Capped, UnderWay, Metered, SpendSeen, OkMeansServed
<1> QED BY <1>1, <1>2, <1>3, <1>4, <1>5, <1>6, <1>7, <1>8, <1>9, <1>10, ContentMetered
        DEF LlmNext

LEMMA LlmStarts == LlmInit => LlmInv
<1> SUFFICES ASSUME LlmInit PROVE LlmInv
    OBVIOUS
<1>1. Attempt \in Attempts
    BY DEF Attempt, Attempts, CallReports
<1>2. Capped(Attempt)
    BY DEF Attempt, Capped
<1>3. UnderWay
    BY DEF LlmInit, UnderWay, Attempt
<1>4. Metered
    BY DEF LlmInit, Metered, Unmetered, Attempt, Priced, SpendSeen, OkMeansServed
<1> QED BY <1>1, <1>2, <1>3, <1>4 DEF LlmInit, LlmInv

\* What an attempt holds and its meter has observed, for any cap, any lengths of the
\* deltas and any prices.
THEOREM LlmInvariance == LlmSpec => []LlmInv
BY LlmStarts, LlmStep, PTL DEF LlmSpec

\* explain_pipeline.py 72-83, 94-102, observability.py 288-293: an attempt that served
\* or was abandoned is never free, and generated text reads zero only after a timeout or
\* a broken connection, when it was blank or by the provider's own report; a prompt costs no less than
\* the cached rate and no more than the full one, an `ok` has served something, and a
\* consumer holds no more than the cap.
THEOREM LlmIsSafe == LlmSpec => []LlmSafe
<1>1. LlmInv => LlmSafe
    <2> SUFFICES ASSUME LlmInv PROVE LlmSafe
        OBVIOUS
    <2>1. llm.usage = {} \/ llm.usage \in {{u} : u \in Usages}
        BY DEF LlmInv, Attempts, CallReports
    <2>2. llm.kept \in 0..llm.bytes /\ llm.words \in 0..llm.kept
        BY DEF LlmInv, Attempts, Capped
    <2>3. LlmTypeOK
        BY <2>1, <2>2 DEF LlmInv, LlmTypeOK, Attempts, UnderWay, Metered
    <2> QED BY <2>3 DEF LlmInv, LlmSafe, Metered, CostWithinPrices, Priced, CapHolds, Capped
<1> QED BY <1>1, LlmInvariance, PTL

-----------------------------------------------------------------------------
(* Texts written ahead of being read (CoachTexts) *)

ProseRecords ==
    [job : {"review", "study"}, cards : Seq(ShownTexts), verdict : ShownTexts \union {NoText},
     outcome : {"none", "full", "fallback"}, theme : Themes, hinted : BOOLEAN, refused : Nat]

VettedText(text) == text.faults \subseteq (IF text.ply \in Signalled THEN {} ELSE {"invented"})

\* The verdict is written last, and says what the texts of the cards are.
ProseFits(p) ==
    /\ p \in ProseRecords
    /\ Len(p.cards) <= Len(CardPlies)
    /\ \A i \in 1..Len(p.cards) : p.cards[i].ply = CardPlies[i] /\ VettedText(p.cards[i])
    /\ p.verdict # NoText =>
         /\ VettedText(p.verdict)
         /\ p.job = "review" =>
              /\ Len(p.cards) = Len(CardPlies)
              /\ p.outcome = "full" <=> /\ p.verdict.source = "llm"
                                        /\ \A i \in 1..Len(p.cards) : p.cards[i].source = "llm"

TextsWritten(p) == Len(p.cards) + (IF p.verdict # NoText THEN 1 ELSE 0)

TextsInv == ProseFits(prose) /\ prose.refused <= TextsWritten(prose)

LEMMA TextFacts ==
    /\ CardPlies \in Seq(Nat) /\ Len(CardPlies) \in Nat /\ DOMAIN CardPlies = 1..Len(CardPlies)
    /\ NoText \notin ShownTexts
    /\ \A i \in 1..Len(CardPlies) : CardPlies[i] \in {CardPlies[j] : j \in DOMAIN CardPlies} \union {0}
<1>1. CardPlies \in Seq(Nat) /\ Len(CardPlies) \in Nat /\ DOMAIN CardPlies = 1..Len(CardPlies)
  BY CoachTextsAssumption, LenProperties
<1>2. NoText \notin ShownTexts
  BY DEF NoText, ShownTexts, Sources
<1> QED BY <1>1, <1>2

\* A vetted text of its place takes it.
LEMMA SettlesFit ==
    ASSUME ProseFits(prose), ~Finished, NEW text \in ShownTexts, text.ply = Place, VettedText(text)
    PROVE  /\ ProseFits(Settled(text)) /\ Settled(text).refused = prose.refused
           /\ TextsWritten(Settled(text)) = TextsWritten(prose) + 1
<1>1. /\ prose \in ProseRecords /\ prose.cards \in Seq(ShownTexts) /\ Len(prose.cards) \in Nat
      /\ Len(prose.cards) <= Len(CardPlies) /\ prose.verdict = NoText /\ prose.job \in {"review", "study"}
      /\ \A i \in 1..Len(prose.cards) : prose.cards[i].ply = CardPlies[i] /\ VettedText(prose.cards[i])
  BY LenProperties DEF ProseFits, ProseRecords, Finished
<1>2. CASE OnCard
  <2> DEFINE cards == Append(prose.cards, text)
             u == [prose EXCEPT !.cards = cards]
             p == [u EXCEPT !.hinted = FALSE]
  <2>1. /\ cards \in Seq(ShownTexts) /\ Len(cards) = Len(prose.cards) + 1
        /\ \A i \in 1..Len(prose.cards) : cards[i] = prose.cards[i]
        /\ cards[Len(prose.cards) + 1] = text
    BY <1>1, AppendProperties
  <2>2. Len(prose.cards) < Len(CardPlies) /\ text.ply = CardPlies[Len(prose.cards) + 1]
    BY <1>2 DEF OnCard, Place, NextPly
  <2>3. Settled(text) = p
    BY <1>2 DEF Settled
  <2> HIDE DEF cards
  <2>4. p \in ProseRecords /\ p.cards = cards /\ p.verdict = NoText /\ p.refused = prose.refused
    BY <1>1, <2>1 DEF ProseRecords
  <2>5. \A i \in 1..Len(cards) : cards[i].ply = CardPlies[i] /\ VettedText(cards[i])
    <3>1. ASSUME NEW i \in 1..Len(cards)
          PROVE  i \in 1..Len(prose.cards) \/ i = Len(prose.cards) + 1
      BY <1>1, <2>1
    <3> QED BY <1>1, <2>1, <2>2, <3>1
  <2> HIDE DEF p
  <2>6. Len(cards) <= Len(CardPlies)
    BY <1>1, <2>1, <2>2, TextFacts
  <2>7. ProseFits(p) /\ TextsWritten(p) = TextsWritten(prose) + 1
    BY <1>1, <2>1, <2>4, <2>5, <2>6 DEF ProseFits, TextsWritten
  <2> QED BY <2>3, <2>4, <2>7
<1>3. CASE ~OnCard
  <2> DEFINE summary == IF prose.job = "review" THEN TextsOutcome(prose.cards, text) ELSE "none"
             u == [prose EXCEPT !.verdict = text]
             v == [u EXCEPT !.hinted = FALSE]
             p == [v EXCEPT !.outcome = summary]
  <2>1. summary \in {"none", "full", "fallback"}
    BY DEF TextsOutcome
  <2>2. prose.job = "review" =>
          (summary = "full" <=> text.source = "llm" /\ \A i \in 1..Len(prose.cards) : prose.cards[i].source = "llm")
    BY <1>1, LenProperties DEF TextsOutcome
  <2>3. Settled(text) = p
    BY <1>3 DEF Settled
  <2> HIDE DEF summary
  <2>4. /\ p \in ProseRecords /\ p.cards = prose.cards /\ p.verdict = text /\ p.refused = prose.refused
        /\ p.outcome = summary /\ p.job = prose.job
    BY <1>1, <2>1 DEF ProseRecords
  <2> HIDE DEF p
  <2>5. text # NoText
    BY TextFacts
  <2>6. p.job = "review" => Len(p.cards) = Len(CardPlies)
    BY <1>1, <1>3, <2>4, TextFacts DEF OnCard
  <2>7. ProseFits(p)
    BY <1>1, <2>2, <2>4, <2>6 DEF ProseFits
  <2>8. TextsWritten(p) = TextsWritten(prose) + 1
    BY <1>1, <2>4, <2>5 DEF TextsWritten
  <2> QED BY <2>3, <2>4, <2>7, <2>8
<1> QED BY <1>2, <1>3

\* The theme, the hint and the count of refusals are no part of the texts.
LEMMA AsidesFit ==
    ASSUME NEW p, ProseFits(p), NEW theme \in Themes, NEW hinted \in BOOLEAN, NEW n \in Nat
    PROVE  /\ ProseFits([p EXCEPT !.theme = theme]) /\ ProseFits([p EXCEPT !.hinted = hinted])
           /\ ProseFits([p EXCEPT !.refused = n])
           /\ [p EXCEPT !.theme = theme].refused = p.refused
           /\ [p EXCEPT !.hinted = hinted].refused = p.refused
           /\ [p EXCEPT !.refused = n].refused = n
           /\ TextsWritten([p EXCEPT !.theme = theme]) = TextsWritten(p)
           /\ TextsWritten([p EXCEPT !.hinted = hinted]) = TextsWritten(p)
           /\ TextsWritten([p EXCEPT !.refused = n]) = TextsWritten(p)
<1> DEFINE Same(q) == /\ q \in ProseRecords /\ q.cards = p.cards /\ q.verdict = p.verdict
                      /\ q.job = p.job /\ q.outcome = p.outcome
           a == [p EXCEPT !.theme = theme]
           b == [p EXCEPT !.hinted = hinted]
           c == [p EXCEPT !.refused = n]
<1>1. p \in ProseRecords
  BY DEF ProseFits
<1>2. Same(a) /\ a.refused = p.refused
  BY <1>1 DEF ProseRecords
<1>3. Same(b) /\ b.refused = p.refused
  BY <1>1 DEF ProseRecords
<1>4. Same(c) /\ c.refused = n
  BY <1>1 DEF ProseRecords
<1> HIDE DEF a, b, c
<1>5. ASSUME NEW q, Same(q) PROVE ProseFits(q) /\ TextsWritten(q) = TextsWritten(p)
  BY <1>5 DEF ProseFits, TextsWritten
<1> HIDE DEF Same
<1>6. /\ ProseFits(a) /\ ProseFits(b) /\ ProseFits(c)
      /\ TextsWritten(a) = TextsWritten(p) /\ TextsWritten(b) = TextsWritten(p) /\ TextsWritten(c) = TextsWritten(p)
  BY <1>2, <1>3, <1>4, <1>5
<1> QED BY <1>2, <1>3, <1>4, <1>6 DEF a, b, c

\* A text of the next place.
LEMMA NextText ==
    ASSUME ProseFits(prose), ~Finished, NEW source \in Sources, NEW faults \in SUBSET Faults,
           faults \intersect Gates(Place) = {}
    PROVE  LET text == [source |-> source, faults |-> faults, ply |-> Place]
           IN  text \in ShownTexts /\ text.ply = Place /\ VettedText(text)
<1> DEFINE text == [source |-> source, faults |-> faults, ply |-> Place]
<1>1. Place \in {CardPlies[j] : j \in DOMAIN CardPlies} \union {0}
  <2>1. Len(prose.cards) \in Nat
    BY LenProperties DEF ProseFits, ProseRecords
  <2>2. CASE OnCard
    <3>1. Len(prose.cards) + 1 \in 1..Len(CardPlies)
      BY <2>1, <2>2, TextFacts DEF OnCard
    <3>2. Place = CardPlies[Len(prose.cards) + 1]
      BY <2>2 DEF Place, NextPly
    <3> QED BY <3>1, <3>2, TextFacts
  <2>3. CASE ~OnCard
    BY <2>3 DEF Place
  <2> QED BY <2>2, <2>3
<1>2. VettedText(text)
  BY DEF VettedText, Gates, Faults
<1>3. text \in ShownTexts /\ text.ply = Place
  BY <1>1 DEF ShownTexts
<1> QED BY <1>2, <1>3

\* So is the fallback, and a rejected text is asked for once more or falls back.
LEMMA FallbackFits ==
    ASSUME TextsInv, ~Finished
    PROVE  /\ ProseFits(FellBack) /\ FellBack.refused = prose.refused
           /\ TextsWritten(FellBack) = TextsWritten(prose) + 1
           /\ \A text : /\ ProseFits(Rejected(text)) /\ Rejected(text).refused = prose.refused
                        /\ TextsWritten(Rejected(text)) >= TextsWritten(prose)
<1> DEFINE text == [source |-> "fallback", faults |-> {}, ply |-> Place]
<1>1. text \in ShownTexts /\ text.ply = Place /\ VettedText(text)
  BY NextText DEF Sources, TextsInv
<1>2. FellBack = Settled(text)
  BY DEF FellBack
<1> HIDE DEF text
<1>3. /\ ProseFits(FellBack) /\ FellBack.refused = prose.refused
      /\ TextsWritten(FellBack) = TextsWritten(prose) + 1
  BY <1>1, <1>2, SettlesFit DEF TextsInv
<1>4. TextsWritten(prose) \in Nat
  BY LenProperties DEF TextsInv, ProseFits, ProseRecords, TextsWritten
<1>5. ASSUME NEW t
      PROVE  /\ ProseFits(Rejected(t)) /\ Rejected(t).refused = prose.refused
             /\ TextsWritten(Rejected(t)) >= TextsWritten(prose)
  <2>1. PICK theme \in Themes : TRUE
    BY CoachTextsAssumption
  <2>2. /\ ProseFits([prose EXCEPT !.hinted = TRUE])
        /\ [prose EXCEPT !.hinted = TRUE].refused = prose.refused
        /\ TextsWritten([prose EXCEPT !.hinted = TRUE]) = TextsWritten(prose)
    BY <2>1, AsidesFit DEF TextsInv
  <2>3. CASE prose.hinted
    BY <1>3, <1>4, <2>3 DEF Rejected
  <2>4. CASE ~prose.hinted
    BY <1>4, <2>2, <2>4 DEF Rejected
  <2> QED BY <2>3, <2>4
<1> QED BY <1>3, <1>5

\* Every text, verdict, note and refusal keeps the invariant.
LEMMA TextsStep == TextsInv /\ [TextsNext]_prose => TextsInv'
<1> SUFFICES ASSUME TextsInv, [TextsNext]_prose PROVE TextsInv'
  OBVIOUS
<1>1. /\ ProseFits(prose) /\ prose.refused \in Nat /\ prose.refused <= TextsWritten(prose)
      /\ TextsWritten(prose) \in Nat
  BY LenProperties DEF TextsInv, ProseFits, ProseRecords, TextsWritten
<1>2. ASSUME NEW p, prose' = p, ProseFits(p), p.refused = prose.refused,
             TextsWritten(p) >= TextsWritten(prose), TextsWritten(p) \in Nat
      PROVE  TextsInv'
  BY <1>1, <1>2 DEF TextsInv
<1>3. \A p : ProseFits(p) => TextsWritten(p) \in Nat
  BY LenProperties DEF ProseFits, ProseRecords, TextsWritten
<1>4. CASE WriteText
  <2>1. PICK faults \in SUBSET Faults :
          prose' = IF faults \intersect Gates(Place) = {}
                   THEN Settled([source |-> "llm", faults |-> faults, ply |-> Place])
                   ELSE Rejected([source |-> "llm", faults |-> faults, ply |-> Place])
    BY <1>4 DEF WriteText
  <2>2. ~Finished
    BY <1>4 DEF WriteText
  <2> DEFINE text == [source |-> "llm", faults |-> faults, ply |-> Place]
  <2>3. CASE faults \intersect Gates(Place) = {}
    <3>1. text \in ShownTexts /\ text.ply = Place /\ VettedText(text)
      BY <1>1, <2>2, <2>3, NextText DEF Sources
    <3>2. prose' = Settled(text)
      BY <2>1, <2>3
    <3> HIDE DEF text
    <3>3. /\ ProseFits(Settled(text)) /\ Settled(text).refused = prose.refused
          /\ TextsWritten(Settled(text)) = TextsWritten(prose) + 1
      BY <1>1, <2>2, <3>1, SettlesFit
    <3> QED BY <1>1, <1>2, <1>3, <3>2, <3>3
  <2>4. CASE faults \intersect Gates(Place) # {}
    <3>1. prose' = Rejected(text)
      BY <2>1, <2>4
    <3> HIDE DEF text
    <3> QED BY <1>2, <1>3, <2>2, <3>1, FallbackFits
  <2> QED BY <2>3, <2>4
<1>5. CASE WriteNote
  <2>1. PICK written \in Replies :
          prose' = IF Readable(written) /\ written.faults \intersect Gates(0) = {}
                   THEN [Settled([source |-> "llm", faults |-> written.faults, ply |-> 0])
                            EXCEPT !.theme = ThemeOf(written)]
                   ELSE Rejected([source |-> "llm", faults |-> written.faults, ply |-> 0])
    BY <1>5 DEF WriteNote
  <2>2. ~Finished /\ Place = 0 /\ written.faults \in SUBSET Faults
    BY <1>5, <2>1 DEF WriteNote, Place, OnCard, Replies
  <2> DEFINE text == [source |-> "llm", faults |-> written.faults, ply |-> Place]
  <2>3. CASE Readable(written) /\ written.faults \intersect Gates(0) = {}
    <3>1. text \in ShownTexts /\ text.ply = Place /\ VettedText(text)
      BY <1>1, <2>2, <2>3, NextText DEF Sources
    <3>2. PICK theme \in Themes : theme = ThemeOf(written)
      BY CoachTextsAssumption DEF ThemeOf
    <3>3. prose' = [Settled(text) EXCEPT !.theme = theme]
      BY <2>1, <2>2, <2>3, <3>2
    <3> HIDE DEF text
    <3>4. /\ ProseFits(Settled(text)) /\ Settled(text).refused = prose.refused
          /\ TextsWritten(Settled(text)) = TextsWritten(prose) + 1
      BY <1>1, <2>2, <3>1, SettlesFit
    <3>5. PICK p : p = Settled(text)
      OBVIOUS
    <3>6. /\ ProseFits([p EXCEPT !.theme = theme])
          /\ [p EXCEPT !.theme = theme].refused = p.refused
          /\ TextsWritten([p EXCEPT !.theme = theme]) = TextsWritten(p)
      <4>1. ProseFits(p) /\ TRUE \in BOOLEAN /\ 0 \in Nat
        BY <3>4, <3>5
      <4> QED BY ONLY <4>1, theme \in Themes, AsidesFit
    <3>7. PICK q : q = [p EXCEPT !.theme = theme]
      OBVIOUS
    <3>8. ProseFits(q) /\ q.refused = prose.refused /\ TextsWritten(q) = TextsWritten(prose) + 1
      BY <3>4, <3>5, <3>6, <3>7
    <3>9. TextsWritten(q) \in Nat /\ TextsWritten(q) >= TextsWritten(prose)
      BY <1>1, <3>8
    <3>10. prose' = q
      BY <3>3, <3>5, <3>7
    <3> QED BY <1>2, <3>8, <3>9, <3>10
  <2>4. CASE ~(Readable(written) /\ written.faults \intersect Gates(0) = {})
    <3>1. prose' = Rejected(text)
      BY <2>1, <2>2, <2>4
    <3> HIDE DEF text
    <3> QED BY <1>2, <1>3, <2>2, <3>1, FallbackFits
  <2> QED BY <2>3, <2>4
<1>6. CASE ProviderRefuses
  <2>1. ~Finished /\ prose' = [FellBack EXCEPT !.refused = FellBack.refused + 1]
    BY <1>6 DEF ProviderRefuses, AfterRefusal
  <2>2. PICK p : p = FellBack
    OBVIOUS
  <2>3. /\ ProseFits(p) /\ p.refused = prose.refused /\ TextsWritten(p) = TextsWritten(prose) + 1
    BY <2>1, <2>2, FallbackFits
  <2>4. PICK theme \in Themes : TRUE
    BY CoachTextsAssumption
  <2>5. PICK n \in Nat : n = prose.refused + 1
    BY <1>1
  <2>6. /\ ProseFits([p EXCEPT !.refused = n]) /\ [p EXCEPT !.refused = n].refused = n
        /\ TextsWritten([p EXCEPT !.refused = n]) = TextsWritten(p)
    BY <2>3, <2>4, AsidesFit
  <2>7. prose' = [p EXCEPT !.refused = n]
    BY <2>1, <2>2, <2>3, <2>5
  <2> QED BY <1>1, <2>3, <2>5, <2>6, <2>7 DEF TextsInv
<1>7. CASE UNCHANGED prose
  BY <1>7 DEF TextsInv
<1> QED BY <1>4, <1>5, <1>6, <1>7 DEF TextsNext

\* What each written text is, and that the verdict comes after all of them: in
\* every reachable state of a review's or a plan's writing.
THEOREM TextsInvariance == TextsSpec => []TextsInv
<1>1. TextsInit => TextsInv
  <2> SUFFICES ASSUME NEW job \in {"review", "study"},
                      prose = [job |-> job, cards |-> <<>>, verdict |-> NoText, outcome |-> "none",
                               theme |-> "generic", hinted |-> FALSE, refused |-> 0]
               PROVE  TextsInv
    BY DEF TextsInit
  <2>1. <<>> \in Seq(ShownTexts) /\ Len(<<>>) = 0
    BY EmptySeq
  <2>2. /\ prose \in ProseRecords /\ prose.cards = <<>> /\ prose.verdict = NoText /\ prose.refused = 0
    BY <2>1, CoachTextsAssumption DEF ProseRecords
  <2> QED BY <2>1, <2>2, TextFacts DEF TextsInv, ProseFits, TextsWritten
<1> QED BY <1>1, TextsStep, PTL DEF TextsSpec

\* review/writer.py and study_plan/verdict.py: whatever the model answers, a
\* reader sees vetted texts only, "full" means that the model wrote them all, and
\* a provider that is down is asked once a text: for any cards, signals and themes.
THEOREM TextsAreSafe == TextsSpec => []TextsSafe
<1>1. TextsInv => TextsSafe
  <2> SUFFICES ASSUME TextsInv PROVE TextsSafe
    OBVIOUS
  <2>1. /\ prose \in ProseRecords /\ prose.cards \in Seq(ShownTexts) /\ Len(prose.cards) \in Nat
        /\ Len(prose.cards) <= Len(CardPlies) /\ prose.refused <= TextsWritten(prose)
        /\ DOMAIN prose.cards = 1..Len(prose.cards)
        /\ \A i \in 1..Len(prose.cards) : prose.cards[i].ply = CardPlies[i] /\ VettedText(prose.cards[i])
        /\ prose.refused \in Nat
    BY LenProperties DEF TextsInv, ProseFits, ProseRecords
  <2>2. TextsTypeOK
    <3>1. prose.refused \in 0..(Len(CardPlies) + 1)
      <4>1. TextsWritten(prose) <= Len(CardPlies) + 1 /\ TextsWritten(prose) \in Nat
        <5>1. PICK n \in {0, 1} : TextsWritten(prose) = Len(prose.cards) + n
          BY DEF TextsWritten
        <5>2. PICK a \in Nat : a = Len(prose.cards)
          BY <2>1
        <5>3. PICK b \in Nat : b = Len(CardPlies)
          BY TextFacts
        <5> QED BY <2>1, <5>1, <5>2, <5>3
      <4> QED BY <2>1, <4>1, TextFacts
    <3>2. \A i \in DOMAIN prose.cards : prose.cards[i] \in ShownTexts
      BY <2>1, ElementOfSeq
    <3> QED BY <2>1, <3>1, <3>2 DEF TextsTypeOK, ProseRecords
  <2>3. OnlyVettedShown
    <3>1. \A text \in AllTexts : VettedText(text)
      BY <2>1 DEF AllTexts, TextsInv, ProseFits
    <3> QED BY <3>1 DEF OnlyVettedShown, VettedText
  <2>4. OutcomeTellsTruth
    <3> SUFFICES ASSUME prose.job = "review", Finished
                 PROVE  /\ [i \in DOMAIN prose.cards |-> prose.cards[i].ply] = CardPlies
                        /\ prose.outcome = "full" <=> \A text \in AllTexts : text.source = "llm"
      BY DEF OutcomeTellsTruth
    <3>1. /\ Len(prose.cards) = Len(CardPlies)
          /\ prose.outcome = "full" <=> /\ prose.verdict.source = "llm"
                                        /\ \A i \in 1..Len(prose.cards) : prose.cards[i].source = "llm"
      BY DEF TextsInv, ProseFits, Finished
    <3>2. [i \in DOMAIN prose.cards |-> prose.cards[i].ply] = CardPlies
      <4>1. CardPlies = [i \in DOMAIN CardPlies |-> CardPlies[i]]
        BY TextFacts
      <4> QED BY <2>1, <3>1, <4>1, TextFacts
    <3>3. (\A text \in AllTexts : text.source = "llm")
            <=> /\ prose.verdict.source = "llm"
                /\ \A i \in 1..Len(prose.cards) : prose.cards[i].source = "llm"
      BY <2>1 DEF AllTexts, Finished
    <3> QED BY <3>1, <3>2, <3>3
  <2>5. RefusedOncePerText
    BY <2>1 DEF RefusedOncePerText, TextsWritten, Finished
  <2> QED BY <2>2, <2>3, <2>4, <2>5 DEF TextsSafe
<1> QED BY <1>1, TextsInvariance, PTL

-----------------------------------------------------------------------------
(* The rating and the coach's next step (CoachPolicy) *)

WeightRows == [n : 0..2, a : Nat, b : Int]
FinishRecs == [pc : FinishStages, before : Int, confidence : Int, result : {"win", "draw", "loss"},
               accuracy : 0..100, weak : Seq(STRING), reward : Int, action : ActionSet,
               copy : WeightRows, shown : ActionSet]
Sightings == [action : ActionSet, n : Nat, reward : Int]
Logs == [seen : Seq(Sightings), rewards : Int, first : Int, overlap : BOOLEAN, late : BOOLEAN]

PlayerTypes == player \in PlayerRows /\ seeding \in Seedings /\ log \in Logs
GamesTypes == games \in Seq(Seq(STRING)) /\ \A i \in DOMAIN games : IsInjective(games[i])
FinishTypes ==
    /\ fin \in [Finishes -> FinishRecs]
    /\ \A f \in Finishes : fin[f].pc = "loaded" => fin[f].copy.n # 0 /\ fin[f].copy.a >= 1
WeightTypes ==
    /\ weights \in [ActionSet -> WeightRows] /\ policy \in Deployments
    /\ \A a \in ActionSet : weights[a] = NoRow \/ (weights[a].n # 0 /\ weights[a].a > 1)

\* While no two requests cross, a player has one finish under way, and what it
\* has read is what the row had when it came.
OneAtATime ==
    player.there /\ ~log.overlap =>
        /\ \A f, g \in InFlight : f = g
        /\ seeding.link = "linking" => InFlight = {} /\ (seeding.fresh => IsDefault)
        /\ \A f \in Finishes : fin[f].pc = "stored" =>
              fin[f].before = player.rating /\ fin[f].confidence = player.confidence
        /\ \A f \in Finishes : fin[f].pc = "rated" =>
              player.rating >= fin[f].before - 20 /\ player.confidence >= fin[f].confidence - 5
        /\ \A f \in Finishes : fin[f].pc \in {"stored", "rated"} =>
              log.rewards = fin[f].before - log.first
        /\ (\A f \in Finishes : fin[f].pc \notin {"stored", "rated"}) =>
              log.rewards = player.rating - log.first
RulesQuiet == ~log.overlap => \A f \in Finishes : fin[f].action \notin {"DRILL", "PUZZLE"}
Erased ==
    ~player.there =>
        /\ \A f \in Finishes : fin[f].pc \notin {"stored", "rated"}
        /\ ~log.late => /\ \A a \in ActionSet : weights[a] = NoRow
                        /\ \A f \in Finishes : fin[f].pc \notin {"decided", "loaded"}

PolicyTypes == PlayerTypes /\ GamesTypes /\ FinishTypes /\ WeightTypes
PolicyInv == PolicyTypes /\ OneAtATime /\ RulesQuiet /\ Erased

\* Exactly one element.
LEMMA OneElement ==
    ASSUME NEW S, IsFiniteSet(S), Cardinality(S) = 1
    PROVE  \E x \in S : S = {x}
<1>1. S # {}
  BY FS_EmptySet
<1>2. PICK x \in S : TRUE
  BY <1>1
<1>3. IsFiniteSet(S \ {x}) /\ Cardinality(S \ {x}) = 0
  BY FS_RemoveElement
<1>4. S \ {x} = {}
  BY <1>3, FS_EmptySet
<1> QED BY <1>2, <1>4

\* What a game can change of a rating.
LEMMA OddsBetween ==
    /\ \A i \in 1..13 : Odds[i] \in 3..97
    /\ \A i \in 7..13 : Odds[i] <= 50
    /\ \A i \in 1..3 : Odds[i] >= 91
<1>1. \A i \in 1..13 : i = 1 \/ i = 2 \/ i = 3 \/ i = 4 \/ i = 5 \/ i = 6 \/ i = 7
                       \/ i = 8 \/ i = 9 \/ i = 10 \/ i = 11 \/ i = 12 \/ i = 13
  OBVIOUS
<1>2. /\ Odds[1] = 97 /\ Odds[2] = 95 /\ Odds[3] = 91 /\ Odds[4] = 85 /\ Odds[5] = 76 /\ Odds[6] = 64
      /\ Odds[7] = 50 /\ Odds[8] = 36 /\ Odds[9] = 24 /\ Odds[10] = 15 /\ Odds[11] = 9
      /\ Odds[12] = 5 /\ Odds[13] = 3
  BY DEF Odds
<1>3. \A i \in 1..13 : Odds[i] \in 3..97
  BY <1>1, <1>2
<1>4. \A i \in 7..13 : Odds[i] <= 50
  <2>1. \A i \in 7..13 : i = 7 \/ i = 8 \/ i = 9 \/ i = 10 \/ i = 11 \/ i = 12 \/ i = 13
    OBVIOUS
  <2> QED BY <1>2, <2>1
<1>5. \A i \in 1..3 : Odds[i] >= 91
  <2>1. \A i \in 1..3 : i = 1 \/ i = 2 \/ i = 3
    OBVIOUS
  <2> QED BY <1>2, <2>1
<1> QED BY <1>3, <1>4, <1>5

\* The engine plays at or above its player's rating below 2400 and at 2400 from there on.
LEMMA OpponentAbove ==
    ASSUME NEW r \in Ratings
    PROVE  /\ OpponentElo(r) \in Int
           /\ r < 2400 => OpponentElo(r) >= r
           /\ r >= 2400 => OpponentElo(r) = 2400
<1>0. r \in 100..3000
  BY DEF Ratings
<1>1. CASE r < 400
  <2>1. OpponentElo(r) = 600 + (9 * (400 - 400)) \div 10
    BY <1>0, <1>1 DEF OpponentElo
  <2> QED BY <1>0, <1>1, <2>1
<1>2. CASE r >= 400 /\ r < 2400
  <2>1. OpponentElo(r) = 600 + (9 * (r - 400)) \div 10
    BY <1>0, <1>2 DEF OpponentElo
  <2> QED BY <1>0, <1>2, <2>1
<1>3. CASE r >= 2400
  <2>1. OpponentElo(r) = 600 + (9 * (2400 - 400)) \div 10
    BY <1>0, <1>3 DEF OpponentElo
  <2> QED BY <1>0, <1>3, <2>1
<1> QED BY <1>0, <1>1, <1>2, <1>3

LEMMA ExpectedFits ==
    ASSUME NEW r \in Ratings
    PROVE  /\ Expected(r, OpponentElo(r)) \in 3..97
           /\ r < 2400 => Expected(r, OpponentElo(r)) <= 50
           /\ r >= 2800 => Expected(r, OpponentElo(r)) >= 91
<1>0. r \in 100..3000
  BY DEF Ratings
<1>1. PICK o \in Int : o = OpponentElo(r) /\ (r < 2400 => o >= r) /\ (r >= 2400 => o = 2400)
  <2>1. OpponentElo(r) \in Int /\ (r < 2400 => OpponentElo(r) >= r)
        /\ (r >= 2400 => OpponentElo(r) = 2400)
    BY OpponentAbove
  <2> QED BY <2>1
<1>2. PICK d \in Int : d = (o - r) \div 100 /\ (r < 2400 => d >= 0) /\ (r >= 2800 => d <= -4)
  <2>1. (o - r) \div 100 \in Int
    BY <1>0
  <2>2. r < 2400 => (o - r) \div 100 >= 0
    BY <1>0, <1>1
  <2>3. r >= 2800 => (o - r) \div 100 <= -4
    BY <1>0, <1>1
  <2> QED BY <2>1, <2>2, <2>3
<1>3. PICK i \in 1..13 : /\ i = 7 + (IF d < -6 THEN -6 ELSE IF d > 6 THEN 6 ELSE d)
                         /\ r < 2400 => i >= 7
                         /\ r >= 2800 => i <= 3
  BY <1>2
<1>4. Expected(r, o) = Odds[i]
  BY <1>2, <1>3 DEF Expected
<1> QED BY <1>1, <1>3, <1>4, OddsBetween

LEMMA DeltaFits ==
    ASSUME PolicyTypes, NEW res \in {"win", "draw", "loss"}
    PROVE  /\ RatingDelta(res) \in -40..40 /\ RatingDelta(res) >= -20
           /\ player.rating + RatingDelta(res) <= 3000
<1>1. PICK r \in Ratings : r = player.rating
  <2>1. player \in PlayerRows
    BY DEF PolicyTypes, PlayerTypes
  <2> QED BY <2>1 DEF PlayerRows
<1>0. r \in 100..3000
  BY DEF Ratings
<1>2. PICK e \in 3..97 : /\ e = Expected(r, OpponentElo(r))
                         /\ r < 2400 => e <= 50
                         /\ r >= 2800 => e >= 91
  <2>1. /\ Expected(r, OpponentElo(r)) \in 3..97
        /\ r < 2400 => Expected(r, OpponentElo(r)) <= 50
        /\ r >= 2800 => Expected(r, OpponentElo(r)) >= 91
    BY ExpectedFits
  <2> QED BY <2>1
<1>3. PICK k \in {10, 20, 40} : k = KFactor(r, Len(games) - 1) /\ (r >= 2400 => k = 10)
  BY <1>0, <1>1 DEF KFactor
<1>4. PICK s \in {0, 50, 100} : s = GameScore(res)
  BY DEF GameScore
<1>5. PICK x \in Int : x = k * (s - e)
  OBVIOUS
<1>6. RatingDelta(res) = x \div 100
  BY <1>1, <1>2, <1>3, <1>4, <1>5 DEF RatingDelta
<1>7. x \div 100 \in -40..40 /\ x \div 100 >= -20 /\ r + x \div 100 <= 3000
  <2>1. CASE k = 10
    <3>1. x = 10 * (s - e) /\ s >= 0 /\ s <= 100
      BY <1>5, <2>1
    <3>2. x >= -970 /\ x <= 970 /\ (r >= 2800 => x <= 90)
      BY <1>0, <1>2, <3>1
    <3> QED BY <1>0, <3>2
  <2>2. CASE k # 10
    <3>1. r < 2400 /\ e <= 50 /\ s >= 0 /\ s <= 100 /\ (x = 20 * (s - e) \/ x = 40 * (s - e))
      <4>1. k = 20 \/ k = 40
        BY <2>2
      <4>2. r < 2400
        BY <1>0, <1>3, <2>2
      <4>3. x = 20 * (s - e) \/ x = 40 * (s - e)
        BY <1>5, <4>1
      <4> QED BY <1>2, <4>2, <4>3
    <3>2. x >= -2000 /\ x <= 4000
      BY <3>1
    <3> QED BY <1>0, <3>1, <3>2
  <2> QED BY <2>1, <2>2
<1> QED BY <1>0, <1>1, <1>6, <1>7

\* Keys run together: when the last three are one and the same, and no game has
\* a key twice, the two older games have it alone and the newest has it last.
LEMMA TailKeys ==
    ASSUME NEW A \in Seq(STRING), NEW B \in Seq(STRING), NEW C \in Seq(STRING),
           IsInjective(A), IsInjective(B), IsInjective(C),
           NEW K, K = A \o B \o C, Len(K) >= 3,
           K[Len(K)] = K[Len(K) - 1], K[Len(K)] = K[Len(K) - 2]
    PROVE  Len(A) >= 1 /\ Len(B) = 1 /\ Len(C) = 1 /\ C[1] = B[1] /\ A[Len(A)] = B[1]
<1>1. PICK a \in Nat, b \in Nat, c \in Nat : a = Len(A) /\ b = Len(B) /\ c = Len(C)
  BY LenProperties
<1>2. DOMAIN A = 1..a /\ DOMAIN B = 1..b /\ DOMAIN C = 1..c
  BY <1>1, LenProperties
<1>3. PICK AB \in Seq(STRING) : AB = A \o B
  BY ConcatProperties
<1>4. /\ Len(AB) = a + b
      /\ \A i \in 1..a : AB[i] = A[i]
      /\ \A i \in 1..b : AB[a + i] = B[i]
  BY <1>1, <1>2, <1>3, ConcatProperties
<1>5. K = AB \o C
  BY <1>3
<1>20. PICK ab \in Nat : ab = a + b /\ ab = Len(AB)
  BY <1>4
<1>21. /\ Len(K) = ab + c
       /\ \A i \in 1..ab : K[i] = AB[i]
       /\ \A i \in 1..c : K[ab + i] = C[i]
  <2>1. Len(AB \o C) = Len(AB) + Len(C)
    BY ConcatProperties
  <2>2. \A i \in 1..Len(AB) : (AB \o C)[i] = AB[i]
    BY ConcatProperties
  <2>3. \A i \in 1..Len(C) : (AB \o C)[Len(AB) + i] = C[i]
    BY ConcatProperties
  <2> QED BY <1>1, <1>5, <1>20, <2>1, <2>2, <2>3
<1>6. PICK n \in Nat : n = a + b + c /\ n = Len(K) /\ n >= 3
  <2>1. PICK n \in Nat : n = a + b + c
    BY <1>1
  <2>2. n = Len(K)
    BY <1>20, <1>21, <2>1
  <2>3. n >= 3
    BY <2>2
  <2> QED BY <2>1, <2>2, <2>3
<1>7. /\ \A i \in 1..(a + b) : K[i] = AB[i]
      /\ \A i \in 1..c : K[a + b + i] = C[i]
  BY <1>20, <1>21
<1>8. /\ \A i \in 1..a : K[i] = A[i]
      /\ \A i \in 1..b : K[a + i] = B[i]
      /\ \A i \in 1..c : K[a + b + i] = C[i]
  <2>1. \A i \in 1..a : i \in 1..(a + b)
    OBVIOUS
  <2>2. \A i \in 1..b : a + i \in 1..(a + b)
    OBVIOUS
  <2> QED BY <1>4, <1>7, <2>1, <2>2
<1>9. K[n] = K[n - 1] /\ K[n] = K[n - 2]
  BY <1>6
<1>10. c <= 1
  <2>1. CASE c >= 2
    <3>1. c \in 1..c /\ c - 1 \in 1..c /\ a + b + c = n /\ a + b + (c - 1) = n - 1
      BY <1>6, <2>1
    <3>2. C[c] = C[c - 1]
      BY <1>8, <1>9, <3>1
    <3>3. c = c - 1
      BY <1>2, <3>1, <3>2 DEF IsInjective
    <3> QED BY <3>3
  <2> QED BY <2>1
<1>11. c = 1
  <2>1. CASE c = 0
    <3>1. n = a + b
      BY <1>6, <2>1
    <3>2. CASE b >= 2
      <4>1. b \in 1..b /\ b - 1 \in 1..b /\ a + b = n /\ a + (b - 1) = n - 1
        BY <3>1, <3>2
      <4>2. B[b] = B[b - 1]
        BY <1>8, <1>9, <4>1
      <4>3. b = b - 1
        BY <1>2, <4>1, <4>2 DEF IsInjective
      <4> QED BY <4>3
    <3>3. CASE b < 2
      <4>1. a \in 1..a /\ a - 1 \in 1..a /\ (b = 0 \/ b = 1)
        BY <1>6, <3>1, <3>3
      <4>2. CASE b = 0
        <5>1. a = n /\ a - 1 = n - 1
          BY <3>1, <4>2
        <5>2. A[a] = A[a - 1]
          BY <1>8, <1>9, <4>1, <5>1
        <5>3. a = a - 1
          BY <1>2, <4>1, <5>2 DEF IsInjective
        <5> QED BY <5>3
      <4>3. CASE b = 1
        <5>1. a = n - 1 /\ a - 1 = n - 2
          BY <3>1, <4>3
        <5>2. A[a] = A[a - 1]
          BY ZenonT(60), <1>8, <1>9, <4>1, <5>1
        <5>3. a = a - 1
          BY <1>2, <4>1, <5>2 DEF IsInjective
        <5> QED BY <5>3
      <4> QED BY <4>1, <4>2, <4>3
    <3> QED BY <3>2, <3>3
  <2> QED BY <1>10, <2>1
<1>12. n = a + b + 1
  BY <1>6, <1>11
<1>13. b <= 1
  <2>1. CASE b >= 2
    <3>1. b \in 1..b /\ b - 1 \in 1..b /\ a + b = n - 1 /\ a + (b - 1) = n - 2
      BY <1>12, <2>1
    <3>2. B[b] = B[b - 1]
      BY ZenonT(60), <1>8, <1>9, <3>1
    <3>3. b = b - 1
      BY <1>2, <3>1, <3>2 DEF IsInjective
    <3> QED BY <3>3
  <2> QED BY <2>1
<1>14. b = 1
  <2>1. CASE b = 0
    <3>3. a = n - 1 /\ n >= 3
      <4>1. n = a + 0 + 1
        BY <1>12, <2>1
      <4>2. n >= 3
        BY <1>6
      <4> QED BY <4>1, <4>2
    <3>1. a \in 1..a /\ a - 1 \in 1..a /\ a = n - 1 /\ a - 1 = n - 2
      BY <3>3
    <3>2. A[a] = A[a - 1]
      BY <1>8, <1>9, <3>1
    <3>4. a = a - 1
      BY <1>2, <3>1, <3>2 DEF IsInjective
    <3> QED BY <3>4
  <2> QED BY <1>13, <2>1
<1>15. a >= 1 /\ a = n - 2 /\ a + 1 = n - 1 /\ a + 1 + 1 = n
  <2>1. n = a + 1 + 1 /\ n >= 3
    BY <1>6, <1>12, <1>14
  <2> QED BY <2>1
<1>16. K[n] = C[1] /\ K[n - 1] = B[1] /\ K[n - 2] = A[a]
  <2>1. 1 \in 1..c /\ 1 \in 1..b /\ a \in 1..a
    BY <1>11, <1>14, <1>15
  <2>2. K[a + b + 1] = C[1] /\ K[a + 1] = B[1] /\ K[a] = A[a]
    BY <1>8, <2>1
  <2> QED BY <1>12, <1>15, <2>2
<1> QED BY <1>1, <1>9, <1>11, <1>14, <1>15, <1>16

\* What the rule sees as repeated.
LEMMA RepeatedKeys ==
    ASSUME NEW K \in Seq(STRING), Repeated(K)
    PROVE  Len(K) >= 3 /\ K[Len(K)] = K[Len(K) - 1] /\ K[Len(K)] = K[Len(K) - 2]
<1>1. PICK n \in Nat : n = Len(K)
  BY LenProperties
<1>2. PICK L : L = LastThree(K)
  OBVIOUS
<1>3. Len(L) = 3 /\ Cardinality({L[i] : i \in DOMAIN L}) = 1
  BY <1>2 DEF Repeated
<1>4. n >= 3 /\ L \in Seq(STRING) /\ L[1] = K[n - 2] /\ L[2] = K[n - 1] /\ L[3] = K[n]
  <2>1. CASE n > 3
    <3>1. L = SubSeq(K, n - 2, n)
      BY <1>1, <1>2, <2>1 DEF LastThree
    <3>2. n - 2 \in 1..(n + 1) /\ n \in (n - 2 - 1)..n
      BY <2>1
    <3>3. /\ L \in Seq(STRING)
          /\ \A i \in 1..3 : L[i] = K[n - 2 + i - 1]
      <4>1. n - 2 + 3 - 1 = n /\ n - (n - 2) + 1 = 3
        OBVIOUS
      <4> QED BY <1>1, <1>3, <3>1, <3>2, <4>1, SubSeqProperties
    <3>4. 1 \in 1..3 /\ 2 \in 1..3 /\ 3 \in 1..3
      OBVIOUS
    <3>5. n - 2 + 1 - 1 = n - 2 /\ n - 2 + 2 - 1 = n - 1 /\ n - 2 + 3 - 1 = n
      OBVIOUS
    <3>6. L[1] = K[n - 2] /\ L[2] = K[n - 1] /\ L[3] = K[n]
      BY <3>3, <3>4, <3>5
    <3> QED BY <2>1, <3>3, <3>6
  <2>2. CASE ~(n > 3)
    <3>1. L = K
      BY <1>1, <1>2, <2>2 DEF LastThree
    <3>2. n = 3
      BY <1>1, <1>3, <3>1
    <3> QED BY <3>1, <3>2
  <2> QED BY <2>1, <2>2
<1>5. DOMAIN L = 1..3
  BY <1>3, <1>4, LenProperties
<1>6. PICK S : S = {L[i] : i \in DOMAIN L}
  OBVIOUS
<1>7. L[1] \in S /\ L[2] \in S /\ L[3] \in S
  BY <1>5, <1>6
<1>8. IsFiniteSet(S)
  <2>1. S = {L[1], L[2], L[3]}
    <3>1. \A i \in 1..3 : i = 1 \/ i = 2 \/ i = 3
      OBVIOUS
    <3> QED BY <1>5, <1>6, <1>7, <3>1
  <2>2. IsFiniteSet({}) /\ \A T, x : IsFiniteSet(T) => IsFiniteSet(T \union {x})
    BY FS_EmptySet, FS_AddElement
  <2>3. S = (({} \union {L[1]}) \union {L[2]}) \union {L[3]}
    BY <2>1
  <2> QED BY <2>2, <2>3
<1>9. PICK k : S = {k}
  BY <1>3, <1>6, <1>8, OneElement
<1> QED BY <1>1, <1>4, <1>7, <1>9

\* The bandit's choice.
LEMMA DividedBelow ==
    ASSUME NEW x \in Int, x < 0, NEW a \in Nat, a >= 1
    PROVE  x \div a < 0
OBVIOUS

LEMMA ExplorationFits ==
    ASSUME NEW a \in Nat, a >= 1
    PROVE  Exploration(a) \in 500..1000 /\ (a = 1 => Exploration(a) = 1000)
<1>1. PICK i \in 1..4 : i = (IF a > 4 THEN 4 ELSE a) /\ (a = 1 => i = 1)
  OBVIOUS
<1>2. Exploration(a) = <<1000, 707, 577, 500>>[i]
  BY <1>1 DEF Exploration
<1>3. i = 1 \/ i = 2 \/ i = 3 \/ i = 4
  OBVIOUS
<1> QED BY <1>1, <1>2, <1>3

LEMMA LoadedFits ==
    ASSUME PolicyTypes, NEW a \in ActionSet
    PROVE  /\ LoadOrInit(weights[a]) \in WeightRows
           /\ LoadOrInit(weights[a]).a >= 1 /\ LoadOrInit(weights[a]).n # 0
           /\ LoadOrInit(weights[a]).a = 1 => LoadOrInit(weights[a]).b = 0
<1>1. PICK w \in WeightRows : w = weights[a] /\ (w = NoRow \/ (w.n # 0 /\ w.a > 1))
  BY DEF PolicyTypes, WeightTypes
<1>2. PICK k \in {1, 2} : k = policy.features
  BY DEF PolicyTypes, WeightTypes, Deployments
<1>3. CASE w.n # k
  <2>1. LoadOrInit(w) = [n |-> k, a |-> 1, b |-> 0]
    BY <1>2, <1>3 DEF LoadOrInit
  <2> QED BY <1>1, <1>2, <2>1 DEF WeightRows
<1>4. CASE w.n = k
  <2>1. LoadOrInit(w) = w
    BY <1>2, <1>4 DEF LoadOrInit
  <2>2. w.n # 0 /\ w # NoRow
    BY <1>2, <1>4 DEF NoRow
  <2>3. w.a > 1 /\ w.a \in Nat
    BY <1>1, <2>2 DEF WeightRows
  <2> QED BY <1>1, <2>1, <2>2, <2>3
<1> QED BY <1>1, <1>3, <1>4

LEMMA ScoreFits ==
    ASSUME PolicyTypes, NEW a \in ActionSet
    PROVE  /\ UcbScore(weights[a]) \in Int
           /\ LoadOrInit(weights[a]).b < 0 => UcbScore(weights[a]) < 1000
           /\ LoadOrInit(weights[a]).a <= 1 => UcbScore(weights[a]) = 1000
<1>1. PICK w \in WeightRows : w = LoadOrInit(weights[a]) /\ w.a >= 1 /\ (w.a = 1 => w.b = 0)
  BY LoadedFits
<1>2. PICK m \in Nat : m = w.a /\ m >= 1
  BY <1>1 DEF WeightRows
<1>3. PICK x \in Int : x = 1000 * w.b /\ (w.b < 0 => x < 0) /\ (w.b = 0 => x = 0)
  <2>1. w.b \in Int
    BY DEF WeightRows
  <2> QED BY <2>1
<1>4. PICK e \in 500..1000 : e = Exploration(m) /\ (m = 1 => e = 1000)
  BY <1>2, ExplorationFits
<1>5. UcbScore(weights[a]) = x \div m + e
  BY <1>1, <1>2, <1>3, <1>4 DEF UcbScore
<1>6. PICK q \in Int : q = x \div m
  BY <1>2
<1>7. w.b < 0 => q < 0
  BY <1>2, <1>3, <1>6, DividedBelow
<1>8. w.a <= 1 => q = 0 /\ e = 1000
  <2>1. CASE m = 1
    <3>1. w.b = 0 /\ x = 0 /\ e = 1000
      BY <1>1, <1>2, <1>3, <1>4, <2>1
    <3>2. 0 \div 1 = 0
      OBVIOUS
    <3> QED BY <1>6, <2>1, <3>1, <3>2
  <2>2. CASE m # 1
    BY <1>2, <2>2
  <2> QED BY <2>1, <2>2
<1>9. /\ q + e \in Int
      /\ q < 0 => q + e < 1000
      /\ q = 0 /\ e = 1000 => q + e = 1000
  OBVIOUS
<1> QED BY <1>1, <1>5, <1>6, <1>7, <1>8, <1>9

LEMMA BestOfFive ==
    ASSUME NEW v \in [1..5 -> Int]
    PROVE  \E i \in 1..5 : \A j \in 1..5 : v[i] > v[j] \/ (v[i] = v[j] /\ i <= j)
<1> DEFINE ahead(i, j) == v[i] > v[j] \/ (v[i] = v[j] /\ i <= j)
<1>1. \A i \in 1..5 : v[i] \in Int
  OBVIOUS
<1>2. \A i, j, k \in 1..5 : ahead(i, j) /\ ahead(j, k) => ahead(i, k)
  BY <1>1
<1>3. \A i, j \in 1..5 : ahead(i, j) \/ ahead(j, i)
  BY <1>1
<1>4. \A j \in 1..5 : j = 1 \/ j = 2 \/ j = 3 \/ j = 4 \/ j = 5
  OBVIOUS
<1>5. 1 \in 1..5 /\ 2 \in 1..5 /\ 3 \in 1..5 /\ 4 \in 1..5 /\ 5 \in 1..5
  OBVIOUS
<1> HIDE DEF ahead
<1>6. PICK i \in 1..5 : ahead(i, 1) /\ ahead(i, 2)
  BY <1>3, <1>5
<1>7. PICK k \in 1..5 : ahead(k, 1) /\ ahead(k, 2) /\ ahead(k, 3)
  BY <1>2, <1>3, <1>5, <1>6
<1>8. PICK l \in 1..5 : ahead(l, 1) /\ ahead(l, 2) /\ ahead(l, 3) /\ ahead(l, 4)
  BY <1>2, <1>3, <1>5, <1>7
<1>9. PICK m \in 1..5 : ahead(m, 1) /\ ahead(m, 2) /\ ahead(m, 3) /\ ahead(m, 4) /\ ahead(m, 5)
  BY <1>2, <1>3, <1>5, <1>8
<1>10. \A j \in 1..5 : ahead(m, j)
  BY <1>4, <1>9
<1> QED BY <1>10 DEF ahead

LEMMA FiveActions ==
    /\ DOMAIN Actions = 1..5
    /\ \A i \in 1..5 : Actions[i] \in ActionSet
    /\ \A a \in ActionSet : \E i \in 1..5 : a = Actions[i]
    /\ {"NONE", "REFLECT", "DRILL", "PUZZLE", "PLAN_UPDATE"} \subseteq ActionSet
<1>1. DOMAIN Actions = 1..5
  BY DEF Actions
<1>2. Actions[1] = "NONE" /\ Actions[2] = "REFLECT" /\ Actions[3] = "DRILL"
      /\ Actions[4] = "PUZZLE" /\ Actions[5] = "PLAN_UPDATE"
  BY DEF Actions
<1>3. 1 \in 1..5 /\ 2 \in 1..5 /\ 3 \in 1..5 /\ 4 \in 1..5 /\ 5 \in 1..5
  OBVIOUS
<1>4. \A i \in 1..5 : Actions[i] \in ActionSet
  BY <1>1 DEF ActionSet
<1> QED BY <1>1, <1>2, <1>3, <1>4 DEF ActionSet

LEMMA SelectedFits ==
    ASSUME PolicyTypes
    PROVE  /\ Selected \in ActionSet
           /\ \A a \in ActionSet : UcbScore(weights[Selected]) >= UcbScore(weights[a])
<1>1. PICK v : v = [i \in 1..5 |-> UcbScore(weights[Actions[i]])]
  OBVIOUS
<1>2. v \in [1..5 -> Int] /\ \A i \in 1..5 : v[i] = UcbScore(weights[Actions[i]])
  BY <1>1, FiveActions, ScoreFits
<1>3. \E i \in 1..5 : \A j \in 1..5 : v[i] > v[j] \/ (v[i] = v[j] /\ i <= j)
  BY <1>2, BestOfFive
<1>4. PICK c : c = CHOOSE i \in DOMAIN Actions :
                     \A j \in DOMAIN Actions :
                        LET best == UcbScore(weights[Actions[i]]) other == UcbScore(weights[Actions[j]])
                        IN  best > other \/ (best = other /\ i <= j)
  OBVIOUS
<1>5. c \in 1..5 /\ \A j \in 1..5 : v[c] > v[j] \/ (v[c] = v[j] /\ c <= j)
  <2>1. \E i \in DOMAIN Actions :
           \A j \in DOMAIN Actions :
              LET best == UcbScore(weights[Actions[i]]) other == UcbScore(weights[Actions[j]])
              IN  best > other \/ (best = other /\ i <= j)
    BY <1>2, <1>3, FiveActions
  <2>2. c \in DOMAIN Actions
        /\ \A j \in DOMAIN Actions :
              LET best == UcbScore(weights[Actions[c]]) other == UcbScore(weights[Actions[j]])
              IN  best > other \/ (best = other /\ c <= j)
    BY <1>4, <2>1
  <2> QED BY <1>2, <2>2, FiveActions
<1>6. Selected = Actions[c]
  BY <1>4 DEF Selected
<1>7. \A j \in 1..5 : v[c] >= v[j]
  <2>1. \A j \in 1..5 : v[c] \in Int /\ v[j] \in Int
    BY <1>2, <1>5
  <2> QED BY <1>5, <2>1
<1> QED BY <1>2, <1>5, <1>6, <1>7, FiveActions

\* Records of the finishes.
LEMMA UnsentFits ==
    /\ Unsent \in FinishRecs /\ Unsent.pc = "unsent" /\ Unsent.action = "NONE"
    /\ Unsent.confidence = 0
<1>1. <<>> \in Seq(STRING)
  BY EmptySeq
<1>2. NoRow \in WeightRows /\ "NONE" \in ActionSet
  BY FiveActions DEF NoRow, WeightRows
<1> QED BY <1>1, <1>2 DEF Unsent, FinishRecs, FinishStages

LEMMA FinishMoves ==
    ASSUME FinishTypes, NEW f \in Finishes, NEW r \in FinishRecs,
           r.pc = "loaded" => r.copy.n # 0 /\ r.copy.a >= 1,
           fin' = [fin EXCEPT ![f] = r]
    PROVE  FinishTypes' /\ fin'[f] = r /\ \A g \in Finishes \ {f} : fin'[g] = fin[g]
<1>1. fin' \in [Finishes -> FinishRecs] /\ fin'[f] = r /\ \A g \in Finishes \ {f} : fin'[g] = fin[g]
  BY DEF FinishTypes
<1>2. \A g \in Finishes : fin'[g].pc = "loaded" => fin'[g].copy.n # 0 /\ fin'[g].copy.a >= 1
  BY <1>1 DEF FinishTypes
<1> QED BY <1>1, <1>2 DEF FinishTypes

\* The log, when an overlap may have been noted.
LEMMA LogNotes ==
    ASSUME log \in Logs, NEW b \in BOOLEAN, log' = [log EXCEPT !.overlap = @ \/ b]
    PROVE  /\ log' \in Logs /\ log'.first = log.first /\ log'.rewards = log.rewards
           /\ log'.seen = log.seen /\ log'.late = log.late
           /\ ~log'.overlap => ~log.overlap /\ ~b
<1>1. PICK c \in BOOLEAN : c = (log.overlap \/ b)
  OBVIOUS
<1>2. log' = [log EXCEPT !.overlap = c]
  BY <1>1
<1>3. log' \in Logs /\ log'.first = log.first /\ log'.rewards = log.rewards
      /\ log'.seen = log.seen /\ log'.late = log.late /\ log'.overlap = c
  BY <1>2 DEF Logs
<1>4. ~c => ~log.overlap /\ ~b
  BY <1>1
<1> QED BY <1>3, <1>4

LEMMA PolicyStarts == PolicyInit => PolicyInv
<1> SUFFICES ASSUME PolicyInit PROVE PolicyInv
  OBVIOUS
<1>1. PICK r \in StartRatings :
          /\ player = [rating |-> r, confidence |-> 50, there |-> TRUE]
          /\ log = [seen |-> <<>>, rewards |-> 0, first |-> r, overlap |-> FALSE, late |-> FALSE]
  BY DEF PolicyInit
<1>2. r \in Ratings /\ r \in Int
  BY CoachPolicyAssumption DEF Ratings
<1>3. player \in PlayerRows /\ player.there = TRUE /\ player.rating = r
  BY <1>1, <1>2 DEF PlayerRows
<1>4. log \in Logs /\ log.overlap = FALSE /\ log.rewards = 0 /\ log.first = r
  <2>1. PICK none \in Seq(Sightings) : none = <<>>
    BY EmptySeq
  <2> QED BY <1>1, <1>2, <2>1 DEF Logs
<1>5. seeding \in Seedings /\ seeding.link = "unsent"
  BY DEF PolicyInit, Seedings
<1>6. fin \in [Finishes -> FinishRecs] /\ \A f \in Finishes : fin[f] = Unsent
  BY UnsentFits DEF PolicyInit
<1>7. FinishTypes
  BY <1>6, UnsentFits DEF FinishTypes
<1>8. GamesTypes
  BY CoachPolicyAssumption DEF PolicyInit, GamesTypes
<1>9. WeightTypes
  BY DEF PolicyInit, WeightTypes, WeightRows, NoRow, Deployments
<1>10. InFlight = {}
  BY <1>6, UnsentFits DEF InFlight
<1>11. OneAtATime
  BY <1>2, <1>3, <1>4, <1>5, <1>6, <1>10, UnsentFits DEF OneAtATime
<1>12. RulesQuiet /\ Erased
  BY <1>3, <1>6, UnsentFits DEF RulesQuiet, Erased
<1> QED BY <1>3, <1>4, <1>5, <1>7, <1>8, <1>9, <1>11, <1>12 DEF PolicyInv, PolicyTypes, PlayerTypes

LEMMA StoreKeeps ==
    ASSUME PolicyInv, NEW f \in Finishes, StoreGame(f)
    PROVE  PolicyInv'
<1>1. PICK engine \in {"answers", "absent", "fails"}, claim \in Reports, truth \in Reports :
          /\ games' = Append(games, Authoritative(engine, claim, truth).weak)
          /\ fin' = [fin EXCEPT ![f] =
                 [Unsent EXCEPT !.pc = "stored", !.before = player.rating,
                                !.confidence = player.confidence, !.result = claim.result,
                                !.accuracy = Authoritative(engine, claim, truth).accuracy,
                                !.weak = Authoritative(engine, claim, truth).weak]]
  BY DEF StoreGame
<1>2. PICK figures \in Reports : figures = Authoritative(engine, claim, truth)
  BY DEF Authoritative
<1>3. PICK w \in Seq(STRING), acc \in 0..100, res \in {"win", "draw", "loss"} :
          w = figures.weak /\ acc = figures.accuracy /\ res = claim.result /\ IsInjective(w)
  <2>1. figures \in [result : {"win", "draw", "loss"}, accuracy : 0..100, weak : Seq(STRING)]
        /\ claim \in [result : {"win", "draw", "loss"}, accuracy : 0..100, weak : Seq(STRING)]
        /\ IsInjective(figures.weak)
    BY CoachPolicyAssumption
  <2>2. figures.weak \in Seq(STRING) /\ figures.accuracy \in 0..100
        /\ claim.result \in {"win", "draw", "loss"}
    BY <2>1
  <2> QED BY <2>1, <2>2
<1>4. PICK rating \in Ratings, conf \in 0..100 : rating = player.rating /\ conf = player.confidence
  BY DEF PolicyInv, PolicyTypes, PlayerTypes, PlayerRows
<1>5. PICK r : r = [Unsent EXCEPT !.pc = "stored", !.before = rating, !.confidence = conf,
                                  !.result = res, !.accuracy = acc, !.weak = w]
  OBVIOUS
<1>6. r \in FinishRecs /\ r.pc = "stored" /\ r.before = rating /\ r.confidence = conf /\ r.action = "NONE"
  <2> DEFINE u1 == [Unsent EXCEPT !.pc = "stored"]
             u2 == [u1 EXCEPT !.before = rating]
             u3 == [u2 EXCEPT !.confidence = conf]
             u4 == [u3 EXCEPT !.result = res]
             u5 == [u4 EXCEPT !.accuracy = acc]
             u6 == [u5 EXCEPT !.weak = w]
  <2>1. u1 \in FinishRecs /\ u1.pc = "stored" /\ u1.action = "NONE"
    <3>1. PICK u \in FinishRecs : u = Unsent /\ u.action = "NONE"
      BY UnsentFits
    <3> QED BY ZenonT(60), <3>1 DEF FinishRecs, FinishStages
  <2>2. r = u6
    BY <1>5
  <2> HIDE DEF u1
  <2>3. u2 \in FinishRecs /\ u2.pc = "stored" /\ u2.action = "NONE" /\ u2.before = rating
    <3>1. rating \in Int
      BY DEF Ratings
    <3> QED BY <2>1, <3>1 DEF FinishRecs
  <2> HIDE DEF u2
  <2>4. u3 \in FinishRecs /\ u3.pc = "stored" /\ u3.action = "NONE" /\ u3.before = rating
        /\ u3.confidence = conf
    <3>1. conf \in Int
      OBVIOUS
    <3> QED BY <2>3, <3>1 DEF FinishRecs
  <2> HIDE DEF u3
  <2>5. u4 \in FinishRecs /\ u4.pc = "stored" /\ u4.action = "NONE" /\ u4.before = rating
        /\ u4.confidence = conf
    BY <2>4 DEF FinishRecs
  <2> HIDE DEF u4
  <2>6. u5 \in FinishRecs /\ u5.pc = "stored" /\ u5.action = "NONE" /\ u5.before = rating
        /\ u5.confidence = conf
    BY <2>5 DEF FinishRecs
  <2> HIDE DEF u5
  <2>7. u6 \in FinishRecs /\ u6.pc = "stored" /\ u6.action = "NONE" /\ u6.before = rating
        /\ u6.confidence = conf
    BY <2>6 DEF FinishRecs
  <2> HIDE DEF u6
  <2> QED BY <2>2, <2>7
<1>7. fin' = [fin EXCEPT ![f] = r]
  BY <1>1, <1>2, <1>3, <1>4, <1>5
<1>8. FinishTypes' /\ fin'[f] = r /\ \A g \in Finishes \ {f} : fin'[g] = fin[g]
  BY <1>6, <1>7, FinishMoves DEF PolicyInv, PolicyTypes
<1>9. games' = Append(games, w)
  BY <1>1, <1>2, <1>3
<1>10. GamesTypes'
  <2>1. games \in Seq(Seq(STRING)) /\ \A i \in DOMAIN games : IsInjective(games[i])
    BY DEF PolicyInv, PolicyTypes, GamesTypes
  <2>2. PICK n \in Nat : n = Len(games) /\ DOMAIN games = 1..n
    BY <2>1, LenProperties
  <2>3. games' \in Seq(Seq(STRING)) /\ Len(games') = n + 1 /\ games'[n + 1] = w
        /\ \A i \in 1..n : games'[i] = games[i]
    BY <1>9, <2>1, <2>2, AppendProperties
  <2>4. DOMAIN games' = 1..(n + 1)
    BY <2>3, LenProperties
  <2>5. \A i \in 1..(n + 1) : i = n + 1 \/ i \in 1..n
    OBVIOUS
  <2>6. \A i \in DOMAIN games' : IsInjective(games'[i])
    BY <1>3, <2>1, <2>2, <2>3, <2>4, <2>5
  <2> QED BY <2>3, <2>6 DEF GamesTypes
<1>11. PICK b \in BOOLEAN : b = Crossed
  BY DEF Crossed
<1>12. log' = [log EXCEPT !.overlap = @ \/ b] /\ log \in Logs
  BY <1>11 DEF StoreGame, PolicyInv, PolicyTypes, PlayerTypes
<1>13. /\ log' \in Logs /\ log'.first = log.first /\ log'.rewards = log.rewards
       /\ ~log'.overlap => ~log.overlap /\ ~b
  BY <1>12, LogNotes
<1>14. UNCHANGED <<player, weights, seeding, policy>> /\ player.there
  BY DEF StoreGame
<1>15. PlayerTypes' /\ WeightTypes'
  BY <1>13, <1>14 DEF PolicyInv, PolicyTypes, PlayerTypes, WeightTypes
<1>16. OneAtATime'
  <2> SUFFICES ASSUME ~log'.overlap
      PROVE  /\ \A g, h \in InFlight' : g = h
             /\ seeding'.link # "linking"
             /\ \A g \in Finishes : fin'[g].pc = "stored" =>
                   fin'[g].before = player'.rating /\ fin'[g].confidence = player'.confidence
             /\ \A g \in Finishes : fin'[g].pc # "rated"
             /\ \A g \in Finishes : fin'[g].pc \in {"stored", "rated"} =>
                   log'.rewards = fin'[g].before - log'.first
             /\ fin'[f].pc = "stored"
    BY DEF OneAtATime
  <2>1. ~log.overlap /\ InFlight = {} /\ seeding.link # "linking"
    BY <1>11, <1>13 DEF Crossed
  <2>2. \A g \in Finishes : fin[g].pc \in {"unsent", "answered"}
    BY <2>1 DEF InFlight
  <2>3. log.rewards = player.rating - log.first
    BY <1>14, <2>1, <2>2 DEF PolicyInv, OneAtATime
  <2>4. \A g \in Finishes : g = f \/ fin'[g].pc \in {"unsent", "answered"}
    BY <1>8, <2>2
  <2>5. \A g \in InFlight' : g = f
    BY <2>4 DEF InFlight
  <2> QED BY <1>4, <1>6, <1>8, <1>13, <1>14, <2>1, <2>3, <2>4, <2>5
<1>17. RulesQuiet'
  BY <1>6, <1>8, <1>13 DEF PolicyInv, RulesQuiet
<1>18. Erased'
  BY <1>14 DEF Erased
<1> QED BY <1>8, <1>10, <1>15, <1>16, <1>17, <1>18 DEF PolicyInv, PolicyTypes

LEMMA RateKeeps ==
    ASSUME PolicyInv, NEW f \in Finishes, Rate(f)
    PROVE  PolicyInv'
<1>1. PICK old \in FinishRecs : old = fin[f] /\ old.pc = "stored"
  BY DEF PolicyInv, PolicyTypes, FinishTypes, Rate
<1>2. PICK r : r = [old EXCEPT !.pc = "rated"]
  OBVIOUS
<1>3. r \in FinishRecs /\ r.pc = "rated" /\ r.before = old.before /\ r.confidence = old.confidence
      /\ r.action = old.action
  BY ZenonT(60), <1>1, <1>2 DEF FinishRecs, FinishStages
<1>4. fin' = [fin EXCEPT ![f] = r]
  BY <1>1, <1>2 DEF Rate
<1>5. FinishTypes' /\ fin'[f] = r /\ \A g \in Finishes \ {f} : fin'[g] = fin[g]
  BY <1>3, <1>4, FinishMoves DEF PolicyInv, PolicyTypes
<1>6. PICK rating \in Ratings, conf \in 0..100 : rating = player.rating /\ conf = player.confidence
  BY DEF PolicyInv, PolicyTypes, PlayerTypes, PlayerRows
<1>7. player' \in PlayerRows /\ player'.there = player.there
      /\ player'.rating >= rating - 20 /\ player'.confidence >= conf - 5
  <2>1. CASE UNCHANGED player
    <3>1. player \in PlayerRows
      BY DEF PolicyInv, PolicyTypes, PlayerTypes
    <3> QED BY <1>6, <2>1, <3>1 DEF Ratings
  <2>2. CASE player' = [player EXCEPT !.rating = Floored(@ + RatingDelta(fin[f].result)),
                                      !.confidence = Within(@ + (fin[f].accuracy - 50) \div 10)]
    <3>1. PICK d \in -40..40 : d = RatingDelta(old.result) /\ d >= -20 /\ rating + d <= 3000
      <4>1. old.result \in {"win", "draw", "loss"}
        BY <1>1 DEF FinishRecs
      <4>2. /\ RatingDelta(old.result) \in -40..40 /\ RatingDelta(old.result) >= -20
            /\ player.rating + RatingDelta(old.result) <= 3000
        BY <4>1, DeltaFits DEF PolicyInv
      <4> QED BY <1>6, <4>2
    <3>2. PICK acc \in 0..100 : acc = old.accuracy
      BY <1>1 DEF FinishRecs
    <3>3. PICK newRating \in Ratings : newRating = Floored(rating + d) /\ newRating >= rating - 20
      <4>1. rating \in 100..3000
        BY DEF Ratings
      <4>2. PICK x \in Int : x = rating + d /\ x <= 3000 /\ x >= rating - 20
        BY <3>1, <4>1
      <4>3. PICK y \in Int : y = IF x < 100 THEN 100 ELSE x
        OBVIOUS
      <4>4. y \in 100..3000 /\ y >= rating - 20
        <5>1. CASE x < 100
          <6>1. y = 100
            BY <4>3, <5>1
          <6> QED BY <4>1, <4>2, <5>1, <6>1
        <5>2. CASE ~(x < 100)
          <6>1. y = x
            BY <4>3, <5>2
          <6> QED BY <4>1, <4>2, <5>2, <6>1
        <5> QED BY <5>1, <5>2
      <4>5. y = Floored(rating + d)
        BY <4>2, <4>3 DEF Floored
      <4>6. y \in Ratings
        BY <4>4 DEF Ratings
      <4> QED BY <4>4, <4>5, <4>6
    <3>4. PICK newConf \in 0..100 : newConf = Within(conf + (acc - 50) \div 10) /\ newConf >= conf - 5
      <4>1. (acc - 50) \div 10 \in -5..5
        OBVIOUS
      <4>2. Within(conf + (acc - 50) \div 10) \in 0..100
            /\ Within(conf + (acc - 50) \div 10) >= conf - 5
        BY <4>1 DEF Within
      <4> QED BY <4>2
    <3>5. player' = [player EXCEPT !.rating = newRating, !.confidence = newConf]
      BY <1>1, <1>6, <2>2, <3>1, <3>2, <3>3, <3>4
    <3>6. player \in PlayerRows
      BY DEF PolicyInv, PolicyTypes, PlayerTypes
    <3>7. player' \in PlayerRows /\ player'.there = player.there /\ player'.rating = newRating
          /\ player'.confidence = newConf
      BY <3>5, <3>6 DEF PlayerRows
    <3> QED BY <3>3, <3>4, <3>7
  <2> QED BY <2>1, <2>2 DEF Rate
<1>8. UNCHANGED <<games, weights, seeding, policy, log>> /\ player.there
  BY DEF Rate
<1>9. PlayerTypes' /\ WeightTypes' /\ GamesTypes'
  BY <1>7, <1>8 DEF PolicyInv, PolicyTypes, PlayerTypes, WeightTypes, GamesTypes
<1>10. OneAtATime'
  <2> SUFFICES ASSUME ~log.overlap
      PROVE  /\ \A g, h \in InFlight' : g = h
             /\ seeding.link # "linking"
             /\ \A g \in Finishes : fin'[g].pc # "stored"
             /\ \A g \in Finishes : fin'[g].pc = "rated" =>
                   player'.rating >= fin'[g].before - 20 /\ player'.confidence >= fin'[g].confidence - 5
             /\ \A g \in Finishes : fin'[g].pc \in {"stored", "rated"} =>
                   log.rewards = fin'[g].before - log.first
             /\ fin'[f].pc = "rated"
    BY <1>8 DEF OneAtATime
  <2>1. f \in InFlight /\ seeding.link # "linking"
    BY <1>1, <1>8 DEF InFlight, PolicyInv, OneAtATime
  <2>2. \A g \in Finishes \ {f} : fin[g].pc \in {"unsent", "answered"}
    BY <1>8, <2>1 DEF InFlight, PolicyInv, OneAtATime
  <2>3. old.before = rating /\ old.confidence = conf /\ log.rewards = old.before - log.first
    BY <1>1, <1>6, <1>8 DEF PolicyInv, OneAtATime
  <2>4. \A g \in Finishes : g = f \/ fin'[g].pc \in {"unsent", "answered"}
    BY <1>5, <2>2
  <2>5. \A g \in InFlight' : g = f
    BY <2>4 DEF InFlight
  <2> QED BY <1>3, <1>5, <1>7, <2>1, <2>3, <2>4, <2>5
<1>11. RulesQuiet'
  BY <1>1, <1>3, <1>5, <1>8 DEF PolicyInv, RulesQuiet
<1>12. Erased'
  BY <1>7, <1>8 DEF Erased
<1> QED BY <1>5, <1>9, <1>10, <1>11, <1>12 DEF PolicyInv, PolicyTypes

LEMMA DecideKeeps ==
    ASSUME PolicyInv, NEW f \in Finishes, Decide(f)
    PROVE  PolicyInv'
<1>1. PICK old \in FinishRecs : old = fin[f] /\ old.pc = "rated"
  BY DEF PolicyInv, PolicyTypes, FinishTypes, Decide
<1>2. PICK rating \in Ratings, conf \in 0..100 : rating = player.rating /\ conf = player.confidence
  BY DEF PolicyInv, PolicyTypes, PlayerTypes, PlayerRows
<1>3. PICK d \in Int : d = Reward(f) /\ d = rating - old.before
  <2>1. rating \in Int /\ old.before \in Int
    BY DEF Ratings, FinishRecs
  <2> QED BY <1>1, <1>2, <2>1 DEF Reward
<1>4. PICK act \in ActionSet : act = Decision(f, d)
  BY FiveActions DEF Decision
<1>5. PICK r : r = [Unsent EXCEPT !.pc = "decided", !.reward = d, !.action = act]
  OBVIOUS
<1>6. r \in FinishRecs /\ r.pc = "decided" /\ r.action = act
  <2>1. PICK u \in FinishRecs : u = Unsent
    BY UnsentFits
  <2> QED BY ZenonT(60), <1>5, <2>1 DEF FinishRecs, FinishStages
<1>7. fin' = [fin EXCEPT ![f] = r] /\ log' = [log EXCEPT !.rewards = @ + d]
  BY <1>3, <1>4, <1>5 DEF Decide
<1>8. FinishTypes' /\ fin'[f] = r /\ \A g \in Finishes \ {f} : fin'[g] = fin[g]
  BY <1>6, <1>7, FinishMoves DEF PolicyInv, PolicyTypes
<1>9. UNCHANGED <<player, games, weights, seeding, policy>> /\ player.there
  BY DEF Decide
<1>10. log \in Logs
  BY DEF PolicyInv, PolicyTypes, PlayerTypes
<1>11. log' \in Logs /\ log'.first = log.first /\ log'.overlap = log.overlap
       /\ log'.rewards = log.rewards + d
  <2>1. PICK y \in Int : y = log.rewards + d
    <3>1. log.rewards \in Int
      BY <1>10 DEF Logs
    <3> QED BY <1>3, <3>1
  <2>2. log' = [log EXCEPT !.rewards = y]
    BY <1>7, <2>1
  <2> QED BY <1>10, <2>1, <2>2 DEF Logs
<1>12. PlayerTypes' /\ WeightTypes' /\ GamesTypes'
  BY <1>9, <1>11 DEF PolicyInv, PolicyTypes, PlayerTypes, WeightTypes, GamesTypes
<1>13. ~log.overlap => /\ seeding.link # "linking"
                       /\ \A g \in Finishes \ {f} : fin[g].pc \in {"unsent", "answered"}
                       /\ rating >= old.before - 20 /\ conf >= old.confidence - 5
                       /\ log.rewards = old.before - log.first
  <2> SUFFICES ASSUME ~log.overlap
      PROVE  /\ seeding.link # "linking"
             /\ \A g \in Finishes \ {f} : fin[g].pc \in {"unsent", "answered"}
             /\ rating >= old.before - 20 /\ conf >= old.confidence - 5
             /\ log.rewards = old.before - log.first
    OBVIOUS
  <2>1. f \in InFlight /\ seeding.link # "linking"
    BY <1>1, <1>9 DEF InFlight, PolicyInv, OneAtATime
  <2>2. \A g \in Finishes \ {f} : fin[g].pc \in {"unsent", "answered"}
    BY <1>9, <2>1 DEF InFlight, PolicyInv, OneAtATime
  <2>3. rating >= old.before - 20 /\ conf >= old.confidence - 5 /\ log.rewards = old.before - log.first
    BY <1>1, <1>2, <1>9 DEF PolicyInv, OneAtATime
  <2> QED BY <2>1, <2>2, <2>3
<1>14. OneAtATime'
  <2> SUFFICES ASSUME ~log.overlap
      PROVE  /\ \A g, h \in InFlight' : g = h
             /\ seeding.link # "linking"
             /\ \A g \in Finishes : fin'[g].pc \notin {"stored", "rated"}
             /\ log'.rewards = player.rating - log.first
    BY <1>9, <1>11 DEF OneAtATime
  <2>1. \A g \in Finishes : g = f \/ fin'[g].pc \in {"unsent", "answered"}
    BY <1>8, <1>13
  <2>2. \A g \in InFlight' : g = f
    BY <2>1 DEF InFlight
  <2>3. PICK b \in Int, l \in Int, rw \in Int : b = old.before /\ l = log.first /\ rw = log.rewards
    BY <1>10 DEF FinishRecs, Logs
  <2>4. rw = b - l /\ d = rating - b
    BY Zenon, <1>3, <1>13, <2>3
  <2>5. rating \in Int
    BY DEF Ratings
  <2>6. rw + d = rating - l
    BY <2>4, <2>5
  <2> QED BY <1>2, <1>6, <1>8, <1>11, <1>13, <2>1, <2>2, <2>3, <2>6
<1>15. ~log.overlap => act \notin {"DRILL", "PUZZLE"}
  <2> SUFFICES ASSUME ~log.overlap PROVE act \notin {"DRILL", "PUZZLE"}
    OBVIOUS
  <2>1. ~(d < -20)
    <3>1. PICK b \in Int : b = old.before
      BY DEF FinishRecs
    <3>2. rating \in Int
      BY DEF Ratings
    <3>3. rating >= b - 20 /\ d = rating - b
      BY Zenon, <1>3, <1>13, <3>1
    <3> QED BY <3>2, <3>3
  <2>2. ~(player.confidence < fin[f].confidence - 5)
    <3>1. PICK c \in Int : c = old.confidence
      BY DEF FinishRecs
    <3>2. ~(conf < c - 5)
      BY <1>13, <3>1
    <3> QED BY <1>1, <1>2, <3>1, <3>2
  <2> QED BY <1>4, <2>1, <2>2 DEF Decision
<1>16. RulesQuiet'
  BY <1>6, <1>8, <1>11, <1>15 DEF PolicyInv, RulesQuiet
<1>17. Erased'
  BY <1>9 DEF Erased
<1> QED BY <1>8, <1>12, <1>14, <1>16, <1>17 DEF PolicyInv, PolicyTypes

\* A step of the observation or of the answer: the player's row stays, and the
\* finish goes on after its decision.
LEMMA LateKeeps ==
    ASSUME PolicyInv, NEW f \in Finishes, NEW r \in FinishRecs,
           fin[f].pc \in {"decided", "loaded", "observed"},
           r.pc \in {"loaded", "observed", "answered"},
           r.pc = "loaded" => r.copy.n # 0 /\ r.copy.a >= 1 /\ fin[f].pc = "decided",
           r.action \in {fin[f].action, "NONE"}, fin' = [fin EXCEPT ![f] = r],
           UNCHANGED <<player, games, seeding>>, log' \in Logs,
           log'.first = log.first /\ log'.rewards = log.rewards /\ log'.overlap = log.overlap,
           log'.late = log.late
    PROVE  /\ PlayerTypes' /\ GamesTypes' /\ FinishTypes' /\ OneAtATime' /\ RulesQuiet'
           /\ ~player.there => \A g \in Finishes : fin'[g].pc \notin {"stored", "rated"}
           /\ ~player.there /\ ~log.late =>
                 /\ \A a \in ActionSet : weights[a] = NoRow
                 /\ \A g \in Finishes : fin'[g].pc \notin {"decided", "loaded"}
                 /\ fin[f].pc = "observed"
<1>1. FinishTypes' /\ fin'[f] = r /\ \A g \in Finishes \ {f} : fin'[g] = fin[g]
  BY FinishMoves DEF PolicyInv, PolicyTypes
<1>2. PlayerTypes' /\ GamesTypes'
  BY DEF PolicyInv, PolicyTypes, PlayerTypes, GamesTypes
<1>3. f \in InFlight
  BY DEF InFlight
<1>4. InFlight' \subseteq InFlight
  BY <1>1, <1>3 DEF InFlight
<1>5. \A g \in Finishes : fin'[g].pc \in {"stored", "rated"} => fin'[g] = fin[g]
  BY <1>1
<1>6. \A g \in Finishes : fin[g].pc \in {"stored", "rated"} => fin'[g] = fin[g]
  BY <1>1
<1>7. OneAtATime'
  <2> SUFFICES ASSUME player.there, ~log.overlap
      PROVE  /\ \A g, h \in InFlight' : g = h
             /\ seeding.link # "linking"
             /\ \A g \in Finishes : fin'[g].pc \notin {"stored", "rated"}
             /\ log.rewards = player.rating - log.first
    BY DEF OneAtATime
  <2>1. /\ \A g, h \in InFlight : g = h
        /\ seeding.link # "linking"
    BY <1>3 DEF PolicyInv, OneAtATime
  <2>2. \A g \in Finishes : fin[g].pc \notin {"stored", "rated"}
    BY <1>3, <2>1 DEF InFlight
  <2>3. log.rewards = player.rating - log.first
    BY <2>2 DEF PolicyInv, OneAtATime
  <2> QED BY <1>4, <1>5, <2>1, <2>2, <2>3
<1>8. RulesQuiet'
  BY <1>1 DEF PolicyInv, RulesQuiet
<1>9. ~player.there => \A g \in Finishes : fin'[g].pc \notin {"stored", "rated"}
  BY <1>5 DEF PolicyInv, Erased
<1>10. ~player.there /\ ~log.late =>
          /\ \A a \in ActionSet : weights[a] = NoRow
          /\ \A g \in Finishes : fin'[g].pc \notin {"decided", "loaded"}
          /\ fin[f].pc = "observed"
  BY <1>1 DEF PolicyInv, Erased
<1> QED BY <1>1, <1>2, <1>7, <1>8, <1>9, <1>10

LEMMA NotedFits ==
    ASSUME PolicyInv, NEW f \in Finishes
    PROVE  Noted(f) \in FinishRecs /\ Noted(f).pc = "observed" /\ Noted(f).action = fin[f].action
<1>1. PICK act \in ActionSet : act = fin[f].action
  BY DEF PolicyInv, PolicyTypes, FinishTypes, FinishRecs
<1>2. PICK u \in FinishRecs : u = Unsent
  BY UnsentFits
<1>3. Noted(f) = [u EXCEPT !.pc = "observed", !.action = act]
  BY <1>1, <1>2 DEF Noted
<1> QED BY ZenonT(60), <1>1, <1>2, <1>3 DEF FinishRecs, FinishStages

LEMMA LoadKeeps ==
    ASSUME PolicyInv, NEW f \in Finishes, LoadWeights(f)
    PROVE  PolicyInv'
<1>1. PICK old \in FinishRecs : old = fin[f] /\ old.pc = "decided"
  BY DEF PolicyInv, PolicyTypes, FinishTypes, LoadWeights
<1>2. PICK w \in WeightRows : w = LoadOrInit(weights[fin[f].action]) /\ w.a >= 1 /\ w.n # 0
  <2>1. fin[f].action \in ActionSet
    BY <1>1 DEF FinishRecs
  <2> QED BY <2>1, LoadedFits DEF PolicyInv
<1>3. PICK r : r = [old EXCEPT !.pc = "loaded", !.copy = w]
  OBVIOUS
<1>4. r \in FinishRecs /\ r.pc = "loaded" /\ r.action = old.action /\ r.copy = w
  BY <1>1, <1>3 DEF FinishRecs, FinishStages
<1>5. fin' = [fin EXCEPT ![f] = r]
  BY <1>1, <1>2, <1>3 DEF LoadWeights
<1>6. UNCHANGED <<player, games, weights, seeding, policy, log>>
  BY DEF LoadWeights
<1>7. log' \in Logs
  BY <1>6 DEF PolicyInv, PolicyTypes, PlayerTypes
<1>8. /\ PlayerTypes' /\ GamesTypes' /\ FinishTypes' /\ OneAtATime' /\ RulesQuiet'
      /\ ~player.there => \A g \in Finishes : fin'[g].pc \notin {"stored", "rated"}
      /\ ~player.there /\ ~log.late => fin[f].pc = "observed"
  BY <1>1, <1>2, <1>4, <1>5, <1>6, <1>7, LateKeeps
<1>9. WeightTypes'
  BY <1>6 DEF PolicyInv, PolicyTypes, WeightTypes
<1>10. Erased'
  BY <1>1, <1>6, <1>8 DEF Erased
<1> QED BY <1>8, <1>9, <1>10 DEF PolicyInv, PolicyTypes

LEMMA SaveKeeps ==
    ASSUME PolicyInv, NEW f \in Finishes, SaveWeights(f)
    PROVE  PolicyInv'
<1>1. PICK old \in FinishRecs : old = fin[f] /\ old.pc = "loaded" /\ old.copy.n # 0 /\ old.copy.a >= 1
  BY DEF PolicyInv, PolicyTypes, FinishTypes, SaveWeights
<1>2. PICK w \in WeightRows, act \in ActionSet, rw \in Int :
          w = old.copy /\ act = old.action /\ rw = old.reward
  BY <1>1 DEF FinishRecs
<1>3. PICK a \in Nat, b \in Int, n \in 0..2 : a = w.a /\ b = w.b /\ n = w.n /\ a >= 1 /\ n # 0
  BY <1>1, <1>2 DEF WeightRows
<1>4. PICK x : x = [w EXCEPT !.a = a + 1, !.b = b + rw]
  OBVIOUS
<1>5. x \in WeightRows /\ x.n = n /\ x.a = a + 1
  <2>1. a + 1 \in Nat /\ b + rw \in Int
    OBVIOUS
  <2> QED BY <1>2, <1>3, <1>4, <2>1 DEF WeightRows
<1>6. weights' = [weights EXCEPT ![act] = x]
  BY <1>1, <1>2, <1>3, <1>4 DEF SaveWeights
<1>7. WeightTypes'
  <2>1. weights \in [ActionSet -> WeightRows]
        /\ \A c \in ActionSet : weights[c] = NoRow \/ (weights[c].n # 0 /\ weights[c].a > 1)
    BY DEF PolicyInv, PolicyTypes, WeightTypes
  <2>2. weights' \in [ActionSet -> WeightRows] /\ weights'[act] = x
        /\ \A c \in ActionSet \ {act} : weights'[c] = weights[c]
    BY <1>5, <1>6, <2>1
  <2>3. x.n # 0 /\ x.a > 1
    BY <1>3, <1>5
  <2>4. \A c \in ActionSet : weights'[c] = NoRow \/ (weights'[c].n # 0 /\ weights'[c].a > 1)
    BY <2>1, <2>2, <2>3
  <2>5. UNCHANGED policy
    BY DEF SaveWeights
  <2> QED BY <2>2, <2>4, <2>5 DEF PolicyInv, PolicyTypes, WeightTypes
<1>8. PICK s \in Seq(Sightings) : s = Append(log.seen, [action |-> act, n |-> n, reward |-> rw])
  <2>1. [action |-> act, n |-> n, reward |-> rw] \in Sightings
    BY DEF Sightings
  <2>2. log.seen \in Seq(Sightings)
    BY DEF PolicyInv, PolicyTypes, PlayerTypes, Logs
  <2> QED BY <2>1, <2>2, AppendProperties
<1>9. log' = [log EXCEPT !.seen = s]
  BY <1>1, <1>2, <1>3, <1>8 DEF SaveWeights
<1>10. /\ log' \in Logs /\ log'.first = log.first /\ log'.rewards = log.rewards
       /\ log'.overlap = log.overlap /\ log'.late = log.late
  <2>1. log \in Logs
    BY DEF PolicyInv, PolicyTypes, PlayerTypes
  <2> QED BY <1>9, <2>1 DEF Logs
<1>11. UNCHANGED <<player, games, seeding, policy>> /\ fin' = [fin EXCEPT ![f] = Noted(f)]
  BY DEF SaveWeights
<1>12. PICK r \in FinishRecs : r = Noted(f) /\ r.pc = "observed" /\ r.action = fin[f].action
  BY NotedFits
<1>13. /\ PlayerTypes' /\ GamesTypes' /\ FinishTypes' /\ OneAtATime' /\ RulesQuiet'
       /\ ~player.there => \A g \in Finishes : fin'[g].pc \notin {"stored", "rated"}
       /\ ~player.there /\ ~log.late => fin[f].pc = "observed"
  BY <1>1, <1>10, <1>11, <1>12, LateKeeps
<1>14. Erased'
  BY <1>1, <1>10, <1>11, <1>13 DEF Erased
<1> QED BY <1>7, <1>13, <1>14 DEF PolicyInv, PolicyTypes

LEMMA FailKeeps ==
    ASSUME PolicyInv, NEW f \in Finishes, ObservationFails(f)
    PROVE  PolicyInv'
<1>1. fin[f].pc = "loaded" /\ fin' = [fin EXCEPT ![f] = Noted(f)]
      /\ UNCHANGED <<player, games, weights, seeding, policy, log>>
  BY DEF ObservationFails
<1>2. PICK r \in FinishRecs : r = Noted(f) /\ r.pc = "observed" /\ r.action = fin[f].action
  BY NotedFits
<1>3. log' \in Logs
  BY <1>1 DEF PolicyInv, PolicyTypes, PlayerTypes
<1>4. /\ PlayerTypes' /\ GamesTypes' /\ FinishTypes' /\ OneAtATime' /\ RulesQuiet'
      /\ ~player.there => \A g \in Finishes : fin'[g].pc \notin {"stored", "rated"}
      /\ ~player.there /\ ~log.late => fin[f].pc = "observed"
  BY <1>1, <1>2, <1>3, LateKeeps
<1>5. WeightTypes'
  BY <1>1 DEF PolicyInv, PolicyTypes, WeightTypes
<1>6. Erased'
  BY <1>1, <1>4 DEF Erased
<1> QED BY <1>4, <1>5, <1>6 DEF PolicyInv, PolicyTypes

LEMMA AnswerKeeps ==
    ASSUME PolicyInv, NEW f \in Finishes, AnswerFinish(f)
    PROVE  PolicyInv'
<1>1. fin[f].pc = "observed" /\ UNCHANGED <<player, games, weights, seeding, policy, log>>
  BY DEF AnswerFinish
<1>2. PICK show \in ActionSet : show = IF policy.bandit THEN Selected ELSE fin[f].action
  <2>1. fin[f].action \in ActionSet
    BY DEF PolicyInv, PolicyTypes, FinishTypes, FinishRecs
  <2> QED BY <2>1, SelectedFits DEF PolicyInv
<1>3. PICK r : r = [Unsent EXCEPT !.pc = "answered", !.shown = show]
  OBVIOUS
<1>4. r \in FinishRecs /\ r.pc = "answered" /\ r.action = "NONE"
  <2>1. PICK u \in FinishRecs : u = Unsent /\ u.action = "NONE"
    BY UnsentFits
  <2> QED BY ZenonT(60), <1>3, <2>1 DEF FinishRecs, FinishStages
<1>5. fin' = [fin EXCEPT ![f] = r]
  BY <1>2, <1>3 DEF AnswerFinish
<1>6. log' \in Logs
  BY <1>1 DEF PolicyInv, PolicyTypes, PlayerTypes
<1>7. /\ PlayerTypes' /\ GamesTypes' /\ FinishTypes' /\ OneAtATime' /\ RulesQuiet'
      /\ ~player.there => \A g \in Finishes : fin'[g].pc \notin {"stored", "rated"}
      /\ ~player.there /\ ~log.late => /\ \A a \in ActionSet : weights[a] = NoRow
                                       /\ \A g \in Finishes : fin'[g].pc \notin {"decided", "loaded"}
  BY <1>1, <1>4, <1>5, <1>6, LateKeeps
<1>8. WeightTypes'
  BY <1>1 DEF PolicyInv, PolicyTypes, WeightTypes
<1>9. Erased'
  BY <1>1, <1>7 DEF Erased
<1> QED BY <1>7, <1>8, <1>9 DEF PolicyInv, PolicyTypes

\* Where nothing is under way and none is added, nothing is read.
LEMMA NoneUnderWay ==
    ASSUME InFlight = {}, UNCHANGED fin
    PROVE  /\ InFlight' = {}
           /\ \A f \in Finishes : fin'[f].pc \notin {"stored", "rated", "decided", "loaded"}
BY DEF InFlight

LEMMA BeginLinkKeeps ==
    ASSUME PolicyInv, BeginLink
    PROVE  PolicyInv'
<1>1. PICK b \in BOOLEAN : b = Crossed
  BY DEF Crossed
<1>2. log' = [log EXCEPT !.overlap = @ \/ b] /\ log \in Logs
  BY <1>1 DEF BeginLink, PolicyInv, PolicyTypes, PlayerTypes
<1>3. /\ log' \in Logs /\ log'.first = log.first /\ log'.rewards = log.rewards
      /\ ~log'.overlap => ~log.overlap /\ ~b
  BY <1>2, LogNotes
<1>4. UNCHANGED <<player, games, fin, weights, policy>> /\ player.there
  BY DEF BeginLink
<1>5. PICK d \in BOOLEAN : d = IsDefault
  BY DEF IsDefault
<1>6. seeding' = [seeding EXCEPT !.link = "linking", !.fresh = d] /\ seeding \in Seedings
  BY <1>5 DEF BeginLink, PolicyInv, PolicyTypes, PlayerTypes
<1>7. seeding' \in Seedings /\ seeding'.fresh = d
  BY <1>6 DEF Seedings
<1>8. PlayerTypes' /\ GamesTypes' /\ FinishTypes' /\ WeightTypes'
  BY <1>3, <1>4, <1>7 DEF PolicyInv, PolicyTypes, PlayerTypes, GamesTypes, FinishTypes, WeightTypes
<1>9. OneAtATime'
  <2> SUFFICES ASSUME ~log'.overlap
      PROVE  /\ InFlight' = {}
             /\ seeding'.fresh => IsDefault'
             /\ \A f \in Finishes : fin[f].pc \notin {"stored", "rated"}
             /\ log'.rewards = player.rating - log'.first
    BY <1>4 DEF OneAtATime
  <2>1. ~log.overlap /\ InFlight = {}
    BY <1>1, <1>3 DEF Crossed
  <2>2. InFlight' = {} /\ \A f \in Finishes : fin[f].pc \notin {"stored", "rated"}
    BY <1>4, <2>1, NoneUnderWay
  <2>3. log.rewards = player.rating - log.first
    BY <1>4, <2>1, <2>2 DEF PolicyInv, OneAtATime
  <2>4. seeding'.fresh => IsDefault'
    <3>1. IsDefault' <=> IsDefault
      BY <1>4 DEF IsDefault
    <3> QED BY <1>5, <1>7, <3>1
  <2> QED BY <1>3, <2>2, <2>3, <2>4
<1>10. RulesQuiet'
  BY <1>3, <1>4 DEF PolicyInv, RulesQuiet
<1>11. Erased'
  BY <1>4 DEF Erased
<1> QED BY <1>8, <1>9, <1>10, <1>11 DEF PolicyInv, PolicyTypes

\* The row moves for another reason than a game.
LEMMA RowMoves ==
    ASSUME PolicyInv, player.there, NEW row \in PlayerRows, row.there = TRUE,
           NEW b \in BOOLEAN, Moved(row, b), InFlight # {} => b \/ log.overlap,
           UNCHANGED <<games, fin, weights, policy>>, seeding' \in Seedings, seeding'.link # "linking" \/ b
    PROVE  PolicyInv'
<1>1. PICK rating \in Int, new \in Int, l \in Int, rw \in Int :
          rating = player.rating /\ new = row.rating /\ l = log.first /\ rw = log.rewards
  <2>1. player \in PlayerRows /\ log \in Logs
    BY DEF PolicyInv, PolicyTypes, PlayerTypes
  <2>2. log.first \in Int /\ log.rewards \in Int
    BY <2>1 DEF Logs
  <2>3. player.rating \in Ratings /\ row.rating \in Ratings
    BY <2>1 DEF PlayerRows
  <2>4. player.rating \in Int /\ row.rating \in Int
    <3>1. Ratings \subseteq Int
      BY DEF Ratings
    <3> QED BY <2>3, <3>1
  <2> QED BY <2>2, <2>4
<1>2. PICK c \in BOOLEAN : c = (log.overlap \/ b)
  OBVIOUS
<1>3. player' = row /\ log' = [log EXCEPT !.first = l + new - rating, !.overlap = c]
  BY <1>1, <1>2 DEF Moved
<1>4. log' \in Logs /\ log'.first = l + new - rating /\ log'.overlap = c /\ log'.rewards = rw
  <2>1. log \in Logs /\ l + new - rating \in Int
    BY DEF PolicyInv, PolicyTypes, PlayerTypes
  <2> QED BY <1>1, <1>3, <2>1 DEF Logs
<1>5. PlayerTypes' /\ GamesTypes' /\ FinishTypes' /\ WeightTypes'
  BY <1>3, <1>4 DEF PolicyInv, PolicyTypes, PlayerTypes, GamesTypes, FinishTypes, WeightTypes
<1>6. ~log'.overlap => ~log.overlap /\ ~b
  BY <1>2, <1>4
<1>7. OneAtATime'
  <2> SUFFICES ASSUME ~log'.overlap
      PROVE  /\ InFlight' = {}
             /\ seeding'.link # "linking"
             /\ \A f \in Finishes : fin[f].pc \notin {"stored", "rated"}
             /\ log'.rewards = row.rating - log'.first
    BY <1>3 DEF OneAtATime
  <2>1. ~log.overlap /\ ~b /\ InFlight = {}
    BY <1>6
  <2>2. InFlight' = {} /\ \A f \in Finishes : fin[f].pc \notin {"stored", "rated"}
    BY <2>1, NoneUnderWay
  <2>3. rw = rating - l
    BY <1>1, <2>1, <2>2 DEF PolicyInv, OneAtATime
  <2>4. rw = new - (l + new - rating)
    BY <2>3
  <2> QED BY <1>1, <1>4, <2>1, <2>2, <2>4
<1>8. RulesQuiet'
  BY <1>6 DEF PolicyInv, RulesQuiet
<1>9. Erased'
  BY <1>3 DEF Erased
<1> QED BY <1>5, <1>7, <1>8, <1>9 DEF PolicyInv, PolicyTypes

LEMMA LeastIndex ==
    ASSUME NEW S \in SUBSET Nat, S # {}
    PROVE  Min(S) \in S
<1>1. PICK m \in S : \A k \in S : ~ (<<k, m>> \in OpToRel(<, Nat))
  BY WFMin, NatLessThanWellFounded
<1>2. ASSUME NEW k \in S PROVE m <= k
  <2>1. m \in Nat /\ k \in Nat /\ ~ (k < m)
    BY <1>1, <1>2 DEF OpToRel
  <2> QED BY ONLY <2>1
<1> QED BY <1>1, <1>2 DEF Min

LEMMA CalibratedFits ==
    ASSUME player \in PlayerRows, NEW perf \in [games : Nat, rating : Nat, provisional : BOOLEAN]
    PROVE  Calibrated(perf) \in PlayerRows /\ Calibrated(perf).there = player.there
<1>1. PICK x \in Nat : x = perf.rating
  OBVIOUS
<1>2. PICK m \in Nat : m = Min({3000, x}) /\ m <= 3000
  <2>1. CASE x <= 3000
    <3>1. Min({3000, x}) = x
      BY <2>1 DEF Min
    <3> QED BY <2>1, <3>1
  <2>2. CASE x > 3000
    <3>1. Min({3000, x}) = 3000
      BY <2>2 DEF Min
    <3> QED BY <3>1
  <2> QED BY <2>1, <2>2
<1>3. PICK y \in Nat : y = Max({600, m}) /\ y >= 600 /\ y <= 3000
  <2>1. CASE m <= 600
    <3>1. Max({600, m}) = 600
      BY <2>1 DEF Max
    <3> QED BY <3>1
  <2>2. CASE m > 600
    <3>1. Max({600, m}) = m
      BY <2>2 DEF Max
    <3> QED BY <1>2, <2>2, <3>1
  <2> QED BY <2>1, <2>2
<1>4. PICK c \in 0..100 : c = CASE perf.provisional -> 40
                                [] perf.games >= 200 -> 85
                                [] perf.games >= 50 -> 70
                                [] OTHER -> 50
  OBVIOUS
<1>5. y \in Ratings
  BY SMTT(30), <1>3 DEF Ratings
<1>6. Calibrated(perf) = [player EXCEPT !.rating = y, !.confidence = c]
  BY <1>1, <1>2, <1>3, <1>4 DEF Calibrated
<1> QED BY <1>5, <1>6 DEF PlayerRows

LEMMA LinkKeeps ==
    ASSUME PolicyInv, Link
    PROVE  PolicyInv'
<1>1. UNCHANGED <<games, fin, weights, policy>>
      /\ seeding' = [seeding EXCEPT !.link = "linked", !.fresh = FALSE] /\ seeding \in Seedings
  BY DEF Link, PolicyInv, PolicyTypes, PlayerTypes
<1>2. seeding' \in Seedings /\ seeding'.link = "linked"
  BY <1>1 DEF Seedings
<1>3. player \in PlayerRows
  BY DEF PolicyInv, PolicyTypes, PlayerTypes
<1>4. CASE player.there
  <2>1. PICK perfs \in Profiles : Moved(AfterLink(perfs), InFlight # {})
    BY <1>4 DEF Link
  <2>2. PICK row : row = AfterLink(perfs)
    OBVIOUS
  <2>3. row \in PlayerRows /\ row.there = TRUE
    <3>1. perfs \in Seq([games : Nat, rating : Nat, provisional : BOOLEAN])
      BY CoachPolicyAssumption
    <3>2. PICK eligible : eligible = {i \in DOMAIN perfs : perfs[i].games > 0}
      OBVIOUS
    <3>3. DOMAIN perfs = 1..Len(perfs) /\ eligible \in SUBSET Nat
      BY <3>1, <3>2, LenProperties
    <3>4. CASE seeding.fresh /\ eligible # {}
      <4>1. row = Calibrated(perfs[Min(eligible)])
        BY <2>2, <3>2, <3>4 DEF AfterLink
      <4>2. Min(eligible) \in DOMAIN perfs
        BY <3>2, <3>3, <3>4, LeastIndex
      <4>3. perfs[Min(eligible)] \in [games : Nat, rating : Nat, provisional : BOOLEAN]
        BY ZenonT(60), <3>1, <3>3, <4>2, ElementOfSeq
      <4> QED BY <1>3, <1>4, <4>1, <4>3, CalibratedFits DEF PlayerRows
    <3>5. CASE ~(seeding.fresh /\ eligible # {})
      <4>1. row = player
        BY <2>2, <3>2, <3>5 DEF AfterLink
      <4> QED BY <1>3, <1>4, <4>1 DEF PlayerRows
    <3> QED BY <3>4, <3>5
  <2>4. PICK b \in BOOLEAN : b = (InFlight # {})
    OBVIOUS
  <2>5. Moved(row, b)
    BY <2>1, <2>2, <2>4
  <2> QED BY <1>1, <1>2, <1>4, <2>3, <2>4, <2>5, RowMoves
<1>5. CASE ~player.there
  <2>1. UNCHANGED <<player, log>>
    BY <1>5 DEF Link
  <2>2. PlayerTypes' /\ GamesTypes' /\ FinishTypes' /\ WeightTypes'
    BY <1>1, <1>2, <2>1 DEF PolicyInv, PolicyTypes, PlayerTypes, GamesTypes, FinishTypes, WeightTypes
  <2>3. OneAtATime'
    BY <1>5, <2>1 DEF OneAtATime
  <2>4. RulesQuiet' /\ Erased'
    BY <1>1, <2>1 DEF PolicyInv, RulesQuiet, Erased
  <2> QED BY <2>2, <2>3, <2>4 DEF PolicyInv, PolicyTypes
<1> QED BY <1>4, <1>5

LEMMA UpdateMeKeeps ==
    ASSUME PolicyInv, UpdateMe
    PROVE  PolicyInv'
<1>1. UNCHANGED <<games, fin, weights, policy>> /\ player.there
      /\ seeding' = [seeding EXCEPT !.patched = TRUE] /\ seeding \in Seedings
  BY DEF UpdateMe, PolicyInv, PolicyTypes, PlayerTypes
<1>2. seeding' \in Seedings /\ seeding'.link = seeding.link
  BY <1>1 DEF Seedings
<1>3. PICK e \in Estimates :
          Moved([player EXCEPT !.rating = e.rating, !.confidence = e.confidence], Crossed)
  BY DEF UpdateMe
<1>4. PICK row : row = [player EXCEPT !.rating = e.rating, !.confidence = e.confidence]
  OBVIOUS
<1>5. row \in PlayerRows /\ row.there = TRUE
  <2>1. e.rating \in Ratings /\ e.confidence \in 0..100
    <3>1. Estimates \subseteq [rating : Ratings, confidence : 0..100]
      <4>1. Estimates \subseteq [rating : 100..3000, confidence : 0..100]
        BY SMTT(30), CoachPolicyAssumption
      <4> QED BY SMTT(30), <4>1 DEF Ratings
    <3>2. e \in [rating : Ratings, confidence : 0..100]
      BY Zenon, <3>1
    <3> QED BY <3>2
  <2>2. player \in PlayerRows
    BY DEF PolicyInv, PolicyTypes, PlayerTypes
  <2> QED BY <1>1, <1>4, <2>1, <2>2 DEF PlayerRows
<1>6. PICK b \in BOOLEAN : b = Crossed
  BY DEF Crossed
<1>7. Moved(row, b) /\ (InFlight # {} => b) /\ (seeding'.link # "linking" \/ b)
  BY <1>2, <1>3, <1>4, <1>6 DEF Crossed
<1> QED BY <1>1, <1>2, <1>5, <1>7, RowMoves

LEMMA EraseKeeps ==
    ASSUME PolicyInv, ErasePlayer
    PROVE  PolicyInv'
<1>1. player' = [rating |-> 100, confidence |-> 0, there |-> FALSE] /\ games' = <<>>
      /\ weights' = [a \in ActionSet |-> NoRow] /\ UNCHANGED <<seeding, policy>>
  BY DEF ErasePlayer
<1>2. player' \in PlayerRows /\ player'.there = FALSE
  BY <1>1 DEF PlayerRows, Ratings
<1>3. PICK gone \in FinishRecs : gone = [Unsent EXCEPT !.pc = "answered"] /\ gone.pc = "answered"
                                /\ gone.action = "NONE"
  <2>1. PICK u \in FinishRecs : u = Unsent /\ u.action = "NONE"
    BY UnsentFits
  <2>2. PICK g : g = [u EXCEPT !.pc = "answered"]
    OBVIOUS
  <2>3. g \in FinishRecs /\ g.pc = "answered" /\ g.action = "NONE"
    BY ZenonT(60), <2>1, <2>2 DEF FinishRecs, FinishStages
  <2> QED BY <2>1, <2>2, <2>3
<1>4. fin' = [f \in Finishes |-> IF fin[f].pc \in {"stored", "rated"} THEN gone ELSE fin[f]]
  BY <1>3 DEF ErasePlayer
<1>5. \A f \in Finishes : fin'[f] = IF fin[f].pc \in {"stored", "rated"} THEN gone ELSE fin[f]
  BY <1>4
<1>6. FinishTypes'
  <2>1. fin \in [Finishes -> FinishRecs]
        /\ \A f \in Finishes : fin[f].pc = "loaded" => fin[f].copy.n # 0 /\ fin[f].copy.a >= 1
    BY DEF PolicyInv, PolicyTypes, FinishTypes
  <2>2. fin' \in [Finishes -> FinishRecs]
    BY <1>4, <2>1
  <2>3. \A f \in Finishes : fin'[f].pc = "loaded" => fin'[f].copy.n # 0 /\ fin'[f].copy.a >= 1
    BY <1>3, <1>5, <2>1
  <2> QED BY <2>2, <2>3 DEF FinishTypes
<1>7. PICK late \in BOOLEAN : late = (\E f \in Finishes : fin[f].pc \in {"decided", "loaded"})
  OBVIOUS
<1>8. log' = [log EXCEPT !.late = late, !.seen = <<>>, !.rewards = 0] /\ log \in Logs
  BY <1>7 DEF ErasePlayer, PolicyInv, PolicyTypes, PlayerTypes
<1>9. log' \in Logs /\ log'.overlap = log.overlap /\ log'.late = late
  <2>0. PICK none \in Seq(Sightings) : none = <<>>
    BY EmptySeq
  <2> DEFINE u1 == [log EXCEPT !.late = late]
             u2 == [u1 EXCEPT !.seen = none]
             u3 == [u2 EXCEPT !.rewards = 0]
  <2>1. log' = u3
    BY <1>8, <2>0
  <2>2. u1 \in Logs /\ u1.overlap = log.overlap /\ u1.late = late
    BY <1>8 DEF Logs
  <2> HIDE DEF u1
  <2>3. u2 \in Logs /\ u2.overlap = log.overlap /\ u2.late = late
    BY <2>2 DEF Logs
  <2> HIDE DEF u2
  <2>4. u3 \in Logs /\ u3.overlap = u2.overlap /\ u3.late = u2.late
    <3>1. PICK u \in Logs : u = u2
      BY <2>3
    <3> QED BY <3>1 DEF Logs
  <2> HIDE DEF u3
  <2> QED BY <2>1, <2>3, <2>4
<1>10. PlayerTypes'
  BY <1>1, <1>2, <1>9 DEF PolicyInv, PolicyTypes, PlayerTypes
<1>11. GamesTypes'
  BY <1>1, EmptySeq DEF GamesTypes
<1>12. WeightTypes'
  <2>1. NoRow \in WeightRows
    BY DEF NoRow, WeightRows
  <2> QED BY <1>1, <2>1 DEF PolicyInv, PolicyTypes, WeightTypes
<1>13. OneAtATime'
  BY <1>2 DEF OneAtATime
<1>14. RulesQuiet'
  BY <1>3, <1>5, <1>9 DEF PolicyInv, RulesQuiet
<1>15. Erased'
  <2>1. \A f \in Finishes : fin'[f].pc \notin {"stored", "rated"}
    BY <1>3, <1>5
  <2>2. \A a \in ActionSet : weights'[a] = NoRow
    BY <1>1
  <2>3. ~late => \A f \in Finishes : fin'[f].pc \notin {"decided", "loaded"}
    BY <1>3, <1>5, <1>7
  <2> QED BY <1>9, <2>1, <2>2, <2>3 DEF Erased
<1> QED BY <1>6, <1>10, <1>11, <1>12, <1>13, <1>14, <1>15 DEF PolicyInv, PolicyTypes

LEMMA LengthenKeeps ==
    ASSUME PolicyInv, LengthenContext
    PROVE  PolicyInv'
<1>1. UNCHANGED <<player, games, fin, weights, seeding, log>> /\ policy' = [policy EXCEPT !.features = 2]
  BY DEF LengthenContext
<1>2. PlayerTypes' /\ GamesTypes' /\ FinishTypes' /\ WeightTypes'
  BY <1>1 DEF PolicyInv, PolicyTypes, PlayerTypes, GamesTypes, FinishTypes, WeightTypes, Deployments
<1>3. OneAtATime' /\ RulesQuiet' /\ Erased'
  BY <1>1 DEF PolicyInv, OneAtATime, InFlight, IsDefault, RulesQuiet, Erased
<1> QED BY <1>2, <1>3 DEF PolicyInv, PolicyTypes

LEMMA PolicyStep == PolicyInv /\ [RatingNext \/ PolicyNext]_policyVars => PolicyInv'
<1> SUFFICES ASSUME PolicyInv, [RatingNext \/ PolicyNext]_policyVars PROVE PolicyInv'
  OBVIOUS
<1>1. CASE UNCHANGED policyVars
  <2>1. UNCHANGED <<player, games, fin, weights, seeding, policy, log>>
    BY <1>1 DEF policyVars
  <2>2. PlayerTypes' /\ GamesTypes' /\ FinishTypes' /\ WeightTypes'
    BY <2>1 DEF PolicyInv, PolicyTypes, PlayerTypes, GamesTypes, FinishTypes, WeightTypes
  <2>3. OneAtATime' /\ RulesQuiet' /\ Erased'
    BY <2>1 DEF PolicyInv, OneAtATime, InFlight, IsDefault, RulesQuiet, Erased
  <2> QED BY <2>2, <2>3 DEF PolicyInv, PolicyTypes
<1>2. CASE BeginLink \/ Link \/ UpdateMe \/ ErasePlayer \/ LengthenContext
  BY <1>2, BeginLinkKeeps, LinkKeeps, UpdateMeKeeps, EraseKeeps, LengthenKeeps
<1>3. CASE \E f \in Finishes : \/ StoreGame(f) \/ Rate(f) \/ Decide(f) \/ LoadWeights(f)
                               \/ SaveWeights(f) \/ ObservationFails(f) \/ AnswerFinish(f)
  BY <1>3, StoreKeeps, RateKeeps, DecideKeeps, LoadKeeps, SaveKeeps, FailKeeps, AnswerKeeps
<1> QED BY <1>1, <1>2, <1>3 DEF RatingNext, PolicyNext

\* events/router.py _finish_game_body, elo.py, live_controller.py and
\* brain/bandit/decision.py: types (a rating stays between 100 and 3000), and, while no
\* two requests cross, a finish decides on the row it has read, for any reports,
\* profiles, estimates and number of finishes.
THEOREM PolicyInvariance == PolicySpec => []PolicyInv
<1>1. PolicyInit => PolicyInv
  BY PolicyStarts
<1>2. PolicyInv /\ [RatingNext \/ PolicyNext]_policyVars => PolicyInv'
  BY PolicyStep
<1> QED BY <1>1, <1>2, PTL DEF PolicySpec

LEMMA PolicyHolds ==
    PolicyInv => PolicyTypeOK /\ RewardsAddUp /\ DrillsNeedOverlap /\ ErasedLeavesNothing
<1> SUFFICES ASSUME PolicyInv
    PROVE  PolicyTypeOK /\ RewardsAddUp /\ DrillsNeedOverlap /\ ErasedLeavesNothing
  OBVIOUS
<1>1. PolicyTypeOK
  <2>1. player \in PlayerRows /\ seeding \in Seedings
    BY DEF PolicyInv, PolicyTypes, PlayerTypes
  <2>2. policy \in Deployments
    BY DEF PolicyInv, PolicyTypes, WeightTypes
  <2>3. \A f \in Finishes :
          fin[f].pc \in FinishStages /\ fin[f].action \in ActionSet /\ fin[f].shown \in ActionSet
    BY DEF PolicyInv, PolicyTypes, FinishTypes, FinishRecs
  <2>4. \A a \in ActionSet : weights[a] = NoRow \/ (weights[a].n \in {1, 2} /\ weights[a].a > 1)
    <3>1. ASSUME NEW a \in ActionSet, weights[a] # NoRow
          PROVE  weights[a].n \in {1, 2} /\ weights[a].a > 1
      <4>1. weights[a] \in WeightRows /\ weights[a].n # 0 /\ weights[a].a > 1
        BY <3>1 DEF PolicyInv, PolicyTypes, WeightTypes
      <4>2. weights[a].n \in 0..2
        BY <4>1 DEF WeightRows
      <4> QED BY <4>1, <4>2
    <3> QED BY <3>1
  <2> QED BY <2>1, <2>2, <2>3, <2>4 DEF PolicyTypeOK
<1>2. RewardsAddUp
  <2> SUFFICES ASSUME player.there, ~log.overlap, \A f \in InFlight : fin[f].pc \notin {"stored", "rated"}
      PROVE  log.rewards = player.rating - log.first
    BY DEF RewardsAddUp
  <2>1. \A f \in Finishes : fin[f].pc \notin {"stored", "rated"}
    BY DEF InFlight
  <2> QED BY <2>1 DEF PolicyInv, OneAtATime
<1>3. DrillsNeedOverlap
  BY DEF PolicyInv, RulesQuiet, DrillsNeedOverlap
<1>4. ErasedLeavesNothing
  BY DEF PolicyInv, Erased, ErasedLeavesNothing
<1> QED BY <1>1, <1>2, <1>3, <1>4

-----------------------------------------------------------------------------
(* What the bandit has learned: whole observations, none of them twice *)

\* The rewards of the places of S in a log of observations.
SumOf(seen, S) ==
    LET sum[i \in 0..Len(seen)] ==
            IF i = 0 THEN 0 ELSE sum[i - 1] + (IF i \in S THEN seen[i].reward ELSE 0)
    IN  sum[Len(seen)]

\* What the place i adds.
Adds(seen, S, i) == IF i \in S THEN seen[i].reward ELSE 0

LEMMA SumSteps ==
    ASSUME NEW q \in Seq(Sightings), NEW S
    PROVE  \E g \in [0..Len(q) -> Int] :
              /\ g[0] = 0
              /\ \A i \in 1..Len(q) : g[i] = g[i - 1] + Adds(q, S, i) /\ Adds(q, S, i) \in Int
              /\ SumOf(q, S) = g[Len(q)]
<1> DEFINE Sums(g) == g = [i \in 0..Len(q) |->
                IF i = 0 THEN 0 ELSE g[i - 1] + (IF i \in S THEN q[i].reward ELSE 0)]
<1>1. PICK n \in Nat : n = Len(q)
  OBVIOUS
<1>2. \A i \in 1..n : Adds(q, S, i) \in Int
  <2>1. ASSUME NEW i \in 1..n PROVE q[i].reward \in Int
    <3>1. q[i] \in Sightings
      BY <1>1
    <3> QED BY <3>1 DEF Sightings
  <2> QED BY <2>1 DEF Adds
<1>3. PICK F : F = [i \in 1..n |-> [x \in Int |-> x + Adds(q, S, i)]]
  OBVIOUS
<1>4. F \in [1..n -> [Int -> Int]]
  BY <1>2, <1>3
<1>5. PICK g \in [0..n -> Int] : g[0] = 0 /\ \A i \in 1..n : g[i] = F[i][g[i - 1]]
  <2>0. PICK Z : Z = Int
    OBVIOUS
  <2>1. PICK z \in Z : z = 0
    BY <2>0
  <2>2. n \in Nat /\ z \in Z /\ F \in [1..n -> [Z -> Z]]
    BY <1>1, <1>4, <2>0, <2>1
  <2>3. \E g \in [0..n -> Z] : g[0] = z /\ \A i \in 1..n : g[i] = F[i][g[i - 1]]
    BY ONLY <2>2, Recursion
  <2> QED BY <2>0, <2>1, <2>3
<1>6. ASSUME NEW i \in 1..n PROVE g[i] = g[i - 1] + Adds(q, S, i)
  <2>1. i - 1 \in 0..n
    BY <1>1
  <2>2. g[i - 1] \in Int
    BY <1>5, <2>1
  <2> QED BY <1>3, <1>5, <2>2
<1>7. Sums(g)
  <2>1. ASSUME NEW i \in 0..n
        PROVE  g[i] = IF i = 0 THEN 0 ELSE g[i - 1] + (IF i \in S THEN q[i].reward ELSE 0)
    <3>1. CASE i = 0
      BY <1>5, <3>1
    <3>2. CASE i # 0
      <4>1. i \in 1..n
        BY <1>1, <3>2
      <4> QED BY <1>6, <3>2, <4>1 DEF Adds
    <3> QED BY <3>1, <3>2
  <2> QED BY <1>1, <1>5, <2>1
<1>8. PICK h : h = CHOOSE x : Sums(x)
  OBVIOUS
<1>9. Sums(h)
  <2> HIDE DEF Sums
  <2> QED BY <1>7, <1>8
<1>10. SumOf(q, S) = h[Len(q)]
  BY <1>8 DEF SumOf
<1>11. h[0] = 0
  BY <1>1, <1>9
<1>12. ASSUME NEW i \in 1..n PROVE h[i] = h[i - 1] + Adds(q, S, i)
  <2>1. i \in 0..n /\ i # 0
    BY <1>1
  <2>2. h[i] = h[i - 1] + (IF i \in S THEN q[i].reward ELSE 0)
    BY <1>1, <1>9, <2>1
  <2> QED BY <2>2 DEF Adds
<1>13. h = g
  <2> DEFINE Same == {i \in Nat : i <= n => h[i] = g[i]}
  <2>1. 0 \in Same
    BY <1>5, <1>11
  <2>2. ASSUME NEW i \in Nat, i \in Same PROVE i + 1 \in Same
    <3>1. SUFFICES ASSUME i + 1 <= n PROVE h[i + 1] = g[i + 1]
      OBVIOUS
    <3>2. i + 1 \in 1..n /\ (i + 1) - 1 = i /\ i <= n
      BY <1>1, <3>1
    <3>3. h[i] = g[i]
      BY <2>2, <3>2
    <3> QED BY <1>6, <1>12, <3>2, <3>3
  <2>3. \A i \in Nat : i \in Same
    <3> HIDE DEF Same
    <3> QED BY <2>1, <2>2, Induction
  <2>4. \A i \in 0..n : h[i] = g[i]
    BY <1>1, <2>3
  <2>5. h = [i \in 0..n |-> h[i]]
    BY <1>1, <1>9
  <2>6. g = [i \in 0..n |-> g[i]]
    BY <1>5
  <2> QED BY <2>4, <2>5, <2>6
<1> QED BY <1>1, <1>2, <1>5, <1>6, <1>10, <1>13

\* No places, no rewards.
LEMMA SumOfNone == ASSUME NEW q \in Seq(Sightings) PROVE SumOf(q, {}) = 0
<1>1. PICK n \in Nat : n = Len(q)
  OBVIOUS
<1>2. PICK g \in [0..n -> Int] : g[0] = 0 /\ SumOf(q, {}) = g[n]
                             /\ \A i \in 1..n : g[i] = g[i - 1] + Adds(q, {}, i)
  <2>1. \E g \in [0..Len(q) -> Int] :
              /\ g[0] = 0
              /\ \A i \in 1..Len(q) : g[i] = g[i - 1] + Adds(q, {}, i) /\ Adds(q, {}, i) \in Int
              /\ SumOf(q, {}) = g[Len(q)]
    BY ONLY q \in Seq(Sightings), SumSteps
  <2> QED BY <1>1, <2>1
<1> DEFINE Zero == {i \in Nat : i <= n => g[i] = 0}
<1>3. 0 \in Zero
  BY <1>2
<1>4. ASSUME NEW i \in Nat, i \in Zero PROVE i + 1 \in Zero
  <2>1. SUFFICES ASSUME i + 1 <= n PROVE g[i + 1] = 0
    OBVIOUS
  <2>2. i + 1 \in 1..n /\ (i + 1) - 1 = i /\ i <= n
    BY <1>1, <2>1
  <2>3. g[i] = 0 /\ Adds(q, {}, i + 1) = 0
    BY <1>4, <2>2 DEF Adds
  <2> QED BY <1>2, <2>2, <2>3
<1>5. \A i \in Nat : i \in Zero
  <2> HIDE DEF Zero
  <2> QED BY <1>3, <1>4, Induction
<1> QED BY <1>1, <1>2, <1>5

\* A longer log leaves what its old places come to, and the new place adds its reward.
LEMMA SumGrows ==
    ASSUME NEW q \in Seq(Sightings), NEW e \in Sightings, NEW S, NEW T,
           \A i \in 1..Len(q) : i \in S <=> i \in T
    PROVE  /\ SumOf(q, S) \in Int /\ e.reward \in Int
           /\ SumOf(Append(q, e), T)
                  = SumOf(q, S) + (IF Len(q) + 1 \in T THEN e.reward ELSE 0)
<1>1. PICK n \in Nat : n = Len(q)
  OBVIOUS
<1>2. PICK r \in Seq(Sightings) : r = Append(q, e) /\ Len(r) = n + 1 /\ r[n + 1] = e
                                 /\ \A i \in 1..n : r[i] = q[i]
  <2>1. /\ Append(q, e) \in Seq(Sightings) /\ Len(Append(q, e)) = Len(q) + 1
        /\ \A i \in 1..Len(q) : Append(q, e)[i] = q[i]
        /\ Append(q, e)[Len(q) + 1] = e
    BY ONLY q \in Seq(Sightings), e \in Sightings, AppendProperties
  <2> QED BY <1>1, <2>1
<1>3. PICK g \in [0..n -> Int] : g[0] = 0 /\ SumOf(q, S) = g[n]
                             /\ \A i \in 1..n : g[i] = g[i - 1] + Adds(q, S, i)
  <2>1. \E g \in [0..Len(q) -> Int] :
              /\ g[0] = 0
              /\ \A i \in 1..Len(q) : g[i] = g[i - 1] + Adds(q, S, i) /\ Adds(q, S, i) \in Int
              /\ SumOf(q, S) = g[Len(q)]
    BY ONLY q \in Seq(Sightings), SumSteps
  <2> QED BY <1>1, <2>1
<1>4. PICK h \in [0..(n + 1) -> Int] : h[0] = 0 /\ SumOf(r, T) = h[n + 1]
                             /\ \A i \in 1..(n + 1) : h[i] = h[i - 1] + Adds(r, T, i)
  <2>1. \E h \in [0..Len(r) -> Int] :
              /\ h[0] = 0
              /\ \A i \in 1..Len(r) : h[i] = h[i - 1] + Adds(r, T, i) /\ Adds(r, T, i) \in Int
              /\ SumOf(r, T) = h[Len(r)]
    BY ONLY r \in Seq(Sightings), SumSteps
  <2> QED BY <1>2, <2>1
<1>5. \A i \in 1..n : Adds(r, T, i) = Adds(q, S, i)
  BY <1>1, <1>2 DEF Adds
<1> DEFINE Same == {i \in Nat : i <= n => h[i] = g[i]}
<1>6. 0 \in Same
  BY <1>3, <1>4
<1>7. ASSUME NEW i \in Nat, i \in Same PROVE i + 1 \in Same
  <2>1. SUFFICES ASSUME i + 1 <= n PROVE h[i + 1] = g[i + 1]
    OBVIOUS
  <2>2. i + 1 \in 1..n /\ i + 1 \in 1..(n + 1) /\ (i + 1) - 1 = i /\ i <= n
    BY <1>1, <2>1
  <2>3. h[i] = g[i] /\ Adds(r, T, i + 1) = Adds(q, S, i + 1)
    BY <1>5, <1>7, <2>2
  <2>4. h[i + 1] = h[i] + Adds(r, T, i + 1) /\ g[i + 1] = g[i] + Adds(q, S, i + 1)
    BY <1>3, <1>4, <2>2
  <2> QED BY <2>3, <2>4
<1>8. \A i \in Nat : i \in Same
  <2> HIDE DEF Same
  <2> QED BY <1>6, <1>7, Induction
<1>9. h[n] = g[n] /\ g[n] \in Int
  BY <1>1, <1>3, <1>8
<1>10. h[n + 1] = h[n] + Adds(r, T, n + 1)
  <2>1. n + 1 \in 1..(n + 1) /\ (n + 1) - 1 = n
    BY <1>1
  <2> QED BY <1>4, <2>1
<1>11. Adds(r, T, n + 1) = IF n + 1 \in T THEN e.reward ELSE 0
  BY <1>2 DEF Adds
<1>12. e.reward \in Int
  BY DEF Sightings
<1> QED BY <1>1, <1>2, <1>3, <1>4, <1>9, <1>10, <1>11, <1>12

\* A row of weights is what some of the observations of its action make, all of them
\* unless requests crossed.
Learned(w, a) ==
    \E S \in SUBSET Observations(a, w.n) :
        /\ w.a = 1 + Cardinality(S) /\ w.b = SumRewards(S)
        /\ log.overlap \/ S = Observations(a, w.n)

\* Not only what is stored: also the copy a finish is about to save; and a row of
\* another context has no observation under the present one.
LearnedInv ==
    player.there =>
        /\ \A a \in ActionSet : weights[a] # NoRow => Learned(weights[a], a)
        /\ \A a \in ActionSet : weights[a].n # policy.features => Observations(a, policy.features) = {}
        /\ \A i \in DOMAIN log.seen : log.seen[i].n <= policy.features
        /\ \A f \in Finishes : fin[f].pc = "loaded" =>
              fin[f].copy.n = policy.features /\ Learned(fin[f].copy, fin[f].action)

\* A step that leaves the weights, the observations and the loaded copies alone.
Quiet ==
    /\ player'.there => player.there
    /\ UNCHANGED <<weights, policy>> /\ log'.seen = log.seen /\ (log.overlap => log'.overlap)
    /\ \A f \in Finishes : fin'[f].pc = "loaded" => fin'[f] = fin[f]

LEMMA SumIsSumOf == \A S : SumRewards(S) = SumOf(log.seen, S)
BY DEF SumRewards, SumOf

LEMMA SumStays ==
    ASSUME log'.seen = log.seen
    PROVE  /\ \A S : SumRewards(S)' = SumRewards(S)
           /\ \A a, n : Observations(a, n)' = Observations(a, n)
<1>1. \A S : SumRewards(S)' = SumRewards(S)
  BY DEF SumRewards
<1>2. \A a, n : Observations(a, n)' = Observations(a, n)
  BY DEF Observations
<1> QED BY <1>1, <1>2

LEMMA LearnedStays ==
    ASSUME log'.seen = log.seen, log.overlap => log'.overlap, NEW w, NEW a, Learned(w, a)
    PROVE  Learned(w, a)'
<1>1. PICK S \in SUBSET Observations(a, w.n) :
        /\ w.a = 1 + Cardinality(S) /\ w.b = SumRewards(S)
        /\ log.overlap \/ S = Observations(a, w.n)
  BY DEF Learned
<1>2. SumRewards(S)' = SumRewards(S) /\ Observations(a, w.n)' = Observations(a, w.n)
  BY SumStays
<1>3. /\ S \in SUBSET Observations(a, w.n)'
      /\ w.a = 1 + Cardinality(S) /\ w.b = SumRewards(S)'
      /\ log'.overlap \/ S = Observations(a, w.n)'
  BY <1>1, <1>2
<1> QED BY <1>3 DEF Learned

LEMMA QuietLearns == LearnedInv /\ Quiet => LearnedInv'
<1> SUFFICES ASSUME LearnedInv, Quiet, player'.there PROVE LearnedInv'
  BY DEF LearnedInv
<1>1. /\ player.there /\ weights' = weights /\ policy' = policy /\ log'.seen = log.seen
      /\ log.overlap => log'.overlap
      /\ \A f \in Finishes : fin'[f].pc = "loaded" => fin'[f] = fin[f]
  BY DEF Quiet
<1>2. ASSUME NEW a \in ActionSet, weights[a] # NoRow PROVE Learned(weights[a], a)'
  <2>1. PICK w : w = weights[a]
    OBVIOUS
  <2>2. Learned(w, a)
    BY <1>1, <1>2, <2>1 DEF LearnedInv
  <2>3. Learned(w, a)'
    BY <1>1, <2>2, LearnedStays
  <2> QED BY <1>1, <2>1, <2>3
<1>3. ASSUME NEW a \in ActionSet, weights[a].n # policy.features
      PROVE  Observations(a, policy.features)' = {}
  <2>1. Observations(a, policy.features) = {}
    BY <1>1, <1>3 DEF LearnedInv
  <2>2. PICK n : n = policy.features
    OBVIOUS
  <2>3. Observations(a, n)' = Observations(a, n)
    BY <1>1, SumStays
  <2> QED BY <1>1, <2>1, <2>2, <2>3
<1>4. \A i \in DOMAIN log'.seen : log'.seen[i].n <= policy'.features
  BY <1>1 DEF LearnedInv
<1>5. ASSUME NEW f \in Finishes, fin'[f].pc = "loaded"
      PROVE  fin'[f].copy.n = policy'.features /\ Learned(fin[f].copy, fin[f].action)'
  <2>1. PICK w, a : w = fin[f].copy /\ a = fin[f].action
    OBVIOUS
  <2>2. fin'[f] = fin[f] /\ w.n = policy.features /\ Learned(w, a)
    BY <1>1, <1>5, <2>1 DEF LearnedInv
  <2>3. Learned(w, a)'
    BY <1>1, <2>2, LearnedStays
  <2>4. fin'[f].copy = w /\ fin'[f].action = a
    BY <2>1, <2>2
  <2> QED BY <1>1, <2>2, <2>3, <2>4
<1> QED BY <1>1, <1>2, <1>3, <1>4, <1>5 DEF LearnedInv

LEMMA FinishesAreQuiet ==
    ASSUME PolicyInv, NEW f \in Finishes,
           StoreGame(f) \/ Rate(f) \/ Decide(f) \/ ObservationFails(f) \/ AnswerFinish(f)
    PROVE  Quiet
<1>0. log \in Logs /\ fin \in [Finishes -> FinishRecs]
  BY DEF PolicyInv, PolicyTypes, PlayerTypes, FinishTypes
<1>1. CASE StoreGame(f)
  <2>1. PICK r : fin' = [fin EXCEPT ![f] = r] /\ r.pc = "stored"
    <3>1. PICK d, c, o, p, k :
              fin' = [fin EXCEPT ![f] = [Unsent EXCEPT !.pc = "stored", !.before = d, !.confidence = c,
                                              !.result = o, !.accuracy = p, !.weak = k]]
      <4>1. PICK engine \in {"answers", "absent", "fails"}, claim \in Reports, truth \in Reports :
                fin' = [fin EXCEPT ![f] =
                    [Unsent EXCEPT !.pc = "stored", !.before = player.rating,
                                   !.confidence = player.confidence, !.result = claim.result,
                                   !.accuracy = Authoritative(engine, claim, truth).accuracy,
                                   !.weak = Authoritative(engine, claim, truth).weak]]
        BY <1>1 DEF StoreGame
      <4> QED BY <4>1
    <3>2. PICK u \in FinishRecs : u = Unsent
      BY UnsentFits
    <3>3. [u EXCEPT !.pc = "stored", !.before = d, !.confidence = c, !.result = o, !.accuracy = p,
                    !.weak = k].pc = "stored"
      BY ZenonT(60), <3>2 DEF FinishRecs
    <3> QED BY <3>1, <3>2, <3>3
  <2>2. PICK b \in BOOLEAN : b = Crossed
    BY DEF Crossed
  <2>3. log' = [log EXCEPT !.overlap = @ \/ b]
    BY <1>1, <2>2 DEF StoreGame
  <2>4. log'.seen = log.seen /\ (log.overlap => log'.overlap)
    BY <1>0, <2>3, LogNotes
  <2> QED BY <1>0, <1>1, <2>1, <2>4 DEF StoreGame, Quiet
<1>2. CASE Rate(f)
  <2>1. PICK r : fin' = [fin EXCEPT ![f] = r] /\ r.pc = "rated"
    <3>1. PICK old \in FinishRecs : old = fin[f]
      BY <1>0
    <3>2. fin' = [fin EXCEPT ![f] = [old EXCEPT !.pc = "rated"]]
      BY <1>2, <3>1 DEF Rate
    <3>3. [old EXCEPT !.pc = "rated"].pc = "rated"
      BY <3>1 DEF FinishRecs
    <3> QED BY <3>2, <3>3
  <2> QED BY <1>0, <1>2, <2>1 DEF Rate, Quiet
<1>3. CASE Decide(f)
  <2>1. PICK r : fin' = [fin EXCEPT ![f] = r] /\ r.pc = "decided"
    <3>1. PICK rw, act : fin' = [fin EXCEPT ![f] = [Unsent EXCEPT !.pc = "decided", !.reward = rw,
                                                     !.action = act]]
      BY <1>3 DEF Decide
    <3>2. PICK u \in FinishRecs : u = Unsent
      BY UnsentFits
    <3>3. [u EXCEPT !.pc = "decided", !.reward = rw, !.action = act].pc = "decided"
      BY ZenonT(60), <3>2 DEF FinishRecs
    <3> QED BY <3>1, <3>2, <3>3
  <2>2. PICK rw : log' = [log EXCEPT !.rewards = @ + rw]
    BY <1>3 DEF Decide
  <2>3. log'.seen = log.seen /\ log'.overlap = log.overlap
    BY <1>0, <2>2 DEF Logs
  <2> QED BY <1>0, <1>3, <2>1, <2>3 DEF Decide, Quiet
<1>4. CASE ObservationFails(f)
  <2>1. PICK r : r = Noted(f) /\ r.pc = "observed"
    BY NotedFits
  <2> QED BY <1>0, <1>4, <2>1 DEF ObservationFails, Quiet
<1>5. CASE AnswerFinish(f)
  <2>1. PICK r : fin' = [fin EXCEPT ![f] = r] /\ r.pc = "answered"
    <3>1. PICK show : fin' = [fin EXCEPT ![f] = [Unsent EXCEPT !.pc = "answered", !.shown = show]]
      BY <1>5 DEF AnswerFinish
    <3>2. PICK u \in FinishRecs : u = Unsent
      BY UnsentFits
    <3>3. [u EXCEPT !.pc = "answered", !.shown = show].pc = "answered"
      BY ZenonT(60), <3>2 DEF FinishRecs
    <3> QED BY <3>1, <3>2, <3>3
  <2> QED BY <1>0, <1>5, <2>1 DEF AnswerFinish, Quiet
<1> QED BY <1>1, <1>2, <1>3, <1>4, <1>5

LEMMA LinksAreQuiet == PolicyInv /\ (BeginLink \/ Link \/ UpdateMe) => Quiet
<1> SUFFICES ASSUME PolicyInv, BeginLink \/ Link \/ UpdateMe PROVE Quiet
  OBVIOUS
<1>0. log \in Logs
  BY DEF PolicyInv, PolicyTypes, PlayerTypes
<1>1. ASSUME NEW r, NEW b \in BOOLEAN, Moved(r, b)
      PROVE  log'.seen = log.seen /\ (log.overlap => log'.overlap)
  <2>1. PICK x : log' = [log EXCEPT !.first = x, !.overlap = @ \/ b]
    BY <1>1 DEF Moved
  <2>2. PICK u : u = [log EXCEPT !.first = x]
    OBVIOUS
  <2>3. u.seen = log.seen /\ u.overlap = log.overlap /\ log' = [u EXCEPT !.overlap = @ \/ b]
    BY <1>0, <2>1, <2>2 DEF Logs
  <2>4. log'.seen = u.seen /\ log'.overlap = (u.overlap \/ b)
    BY <1>0, <2>2, <2>3 DEF Logs
  <2> QED BY <2>3, <2>4
<1>2. CASE BeginLink
  <2>1. PICK b \in BOOLEAN : b = Crossed
    BY DEF Crossed
  <2>2. log' = [log EXCEPT !.overlap = @ \/ b]
    BY <1>2, <2>1 DEF BeginLink
  <2>3. log'.seen = log.seen /\ (log.overlap => log'.overlap)
    BY <1>0, <2>2, LogNotes
  <2> QED BY <1>2, <2>3 DEF BeginLink, Quiet
<1>3. CASE Link
  <2>1. CASE player.there
    <3>1. PICK b \in BOOLEAN : \E r : Moved(r, b)
      <4>1. (InFlight # {}) \in BOOLEAN
        OBVIOUS
      <4> QED BY <1>3, <2>1, <4>1 DEF Link
    <3>2. log'.seen = log.seen /\ (log.overlap => log'.overlap)
      BY <1>1, <3>1
    <3> QED BY <1>3, <2>1, <3>2 DEF Link, Quiet
  <2>2. CASE ~player.there
    BY <1>3, <2>2 DEF Link, Quiet
  <2> QED BY <2>1, <2>2
<1>4. CASE UpdateMe
  <2>1. PICK b \in BOOLEAN : \E r : Moved(r, b)
    <3>1. Crossed \in BOOLEAN
      BY DEF Crossed
    <3> QED BY <1>4, <3>1 DEF UpdateMe
  <2>2. log'.seen = log.seen /\ (log.overlap => log'.overlap)
    BY <1>1, <2>1
  <2> QED BY <1>4, <2>2 DEF UpdateMe, Quiet
<1> QED BY <1>2, <1>3, <1>4

LEMMA LearnedStarts == PolicyInit => LearnedInv
<1> SUFFICES ASSUME PolicyInit PROVE LearnedInv
  OBVIOUS
<1>1. log.seen = <<>>
  BY DEF PolicyInit
<1>2. \A a, n : Observations(a, n) = {}
  BY <1>1 DEF Observations
<1>3. \A a \in ActionSet : weights[a] = NoRow
  BY DEF PolicyInit
<1>4. \A f \in Finishes : fin[f].pc # "loaded"
  BY UnsentFits DEF PolicyInit
<1> QED BY <1>1, <1>2, <1>3, <1>4 DEF LearnedInv

LEMMA LoadLearns ==
    ASSUME PolicyInv, LearnedInv, NEW f \in Finishes, LoadWeights(f)
    PROVE  LearnedInv'
<1> SUFFICES ASSUME player'.there PROVE LearnedInv'
  BY DEF LearnedInv
<1>1. PICK old \in FinishRecs : old = fin[f] /\ old.pc = "decided"
  BY DEF PolicyInv, PolicyTypes, FinishTypes, LoadWeights
<1>2. PICK act \in ActionSet : act = old.action
  BY <1>1 DEF FinishRecs
<1>3. PICK n \in {1, 2} : n = policy.features
  BY DEF PolicyInv, PolicyTypes, WeightTypes, Deployments
<1>4. PICK w : w = LoadOrInit(weights[act])
  OBVIOUS
<1>5. /\ fin' = [fin EXCEPT ![f] = [old EXCEPT !.pc = "loaded", !.copy = w]]
      /\ player' = player /\ weights' = weights /\ policy' = policy /\ log' = log
  BY <1>1, <1>2, <1>4 DEF LoadWeights
<1>6. PICK r : r = [old EXCEPT !.pc = "loaded", !.copy = w]
  OBVIOUS
<1>7. r.copy = w /\ r.action = act
  BY <1>1, <1>2, <1>6 DEF FinishRecs
<1>8. fin'[f] = r /\ \A g \in Finishes \ {f} : fin'[g] = fin[g]
  <2>1. fin \in [Finishes -> FinishRecs]
    BY DEF PolicyInv, PolicyTypes, FinishTypes
  <2> QED BY <1>5, <1>6, <2>1
<1>9. w.n = n /\ Learned(w, act)
  <2>1. CASE weights[act].n # n
    <3>1. w.n = n /\ w.a = 1 /\ w.b = 0
      BY <1>3, <1>4, <2>1 DEF LoadOrInit
    <3>2. Observations(act, n) = {}
      BY <1>3, <1>5, <2>1 DEF LearnedInv
    <3>3. SumRewards({}) = 0
      <4>1. log.seen \in Seq(Sightings)
        BY DEF PolicyInv, PolicyTypes, PlayerTypes, Logs
      <4> QED BY <4>1, SumOfNone, SumIsSumOf
    <3>4. Cardinality({}) = 0
      BY FS_EmptySet
    <3> QED BY <3>1, <3>2, <3>3, <3>4 DEF Learned
  <2>2. CASE weights[act].n = n
    <3>1. w = weights[act]
      BY <1>3, <1>4, <2>2 DEF LoadOrInit
    <3>2. weights[act] # NoRow
      BY <2>2 DEF NoRow
    <3> QED BY <1>5, <2>2, <3>1, <3>2 DEF LearnedInv
  <2> QED BY <2>1, <2>2
<1>10. ASSUME NEW v, NEW a, Learned(v, a) PROVE Learned(v, a)'
  BY <1>5, <1>10, LearnedStays
<1>11. Learned(w, act)'
  BY <1>9, <1>10
<1>12. ASSUME NEW g \in Finishes, fin'[g].pc = "loaded"
       PROVE  fin'[g].copy.n = n /\ \E v, a : v = fin'[g].copy /\ a = fin'[g].action /\ Learned(v, a)'
  <2>1. CASE g = f
    BY <1>7, <1>8, <1>9, <1>11, <2>1
  <2>2. CASE g # f
    <3>1. PICK v, a : v = fin[g].copy /\ a = fin[g].action
      OBVIOUS
    <3>2. fin'[g] = fin[g] /\ v.n = n /\ Learned(v, a)
      BY <1>3, <1>5, <1>8, <1>12, <2>2, <3>1 DEF LearnedInv
    <3>3. Learned(v, a)'
      BY <1>10, <3>2
    <3> QED BY <3>1, <3>2, <3>3
  <2> QED BY <2>1, <2>2
<1>13. ASSUME NEW a \in ActionSet, weights[a] # NoRow PROVE Learned(weights[a], a)'
  <2>1. PICK v : v = weights[a] /\ Learned(v, a)
    BY <1>5, <1>13 DEF LearnedInv
  <2>2. Learned(v, a)'
    BY <1>10, <2>1
  <2> QED BY <1>5, <2>1, <2>2
<1>14. \A a \in ActionSet : weights[a].n # n => Observations(a, n)' = {}
  <2>1. \A a \in ActionSet : weights[a].n # n => Observations(a, n) = {}
    BY <1>3, <1>5 DEF LearnedInv
  <2> QED BY <1>5, <2>1, SumStays
<1>15. \A i \in DOMAIN log.seen : log.seen[i].n <= policy.features
  BY <1>5 DEF LearnedInv
<1> QED BY <1>3, <1>5, <1>12, <1>13, <1>14, <1>15 DEF LearnedInv

LEMMA SaveLearns ==
    ASSUME PolicyInv, LearnedInv, NEW f \in Finishes, SaveWeights(f)
    PROVE  LearnedInv'
<1> SUFFICES ASSUME player'.there PROVE LearnedInv'
  BY DEF LearnedInv
<1>1. PICK old \in FinishRecs : old = fin[f] /\ old.pc = "loaded"
  BY DEF PolicyInv, PolicyTypes, FinishTypes, SaveWeights
<1>2. PICK w \in WeightRows, act \in ActionSet, rw \in Int :
          w = old.copy /\ act = old.action /\ rw = old.reward
  BY <1>1 DEF FinishRecs
<1>3. PICK n \in Nat, wa \in Nat, wb \in Int : n = w.n /\ wa = w.a /\ wb = w.b
  BY <1>2 DEF WeightRows
<1>4. PICK x : x = [w EXCEPT !.a = wa + 1, !.b = wb + rw]
  OBVIOUS
<1>5. x.n = n /\ x.a = wa + 1 /\ x.b = wb + rw
  BY <1>2, <1>3, <1>4 DEF WeightRows
<1>6. PICK q \in Seq(Sightings) : q = log.seen
  BY DEF PolicyInv, PolicyTypes, PlayerTypes, Logs
<1>7. PICK e \in Sightings : e = [action |-> act, n |-> n, reward |-> rw]
  <2>1. [action |-> act, n |-> n, reward |-> rw] \in Sightings
    BY DEF Sightings
  <2> QED BY <2>1
<1>8. PICK m \in Nat : m = Len(q)
  OBVIOUS
<1>9. PICK r \in Seq(Sightings) : r = Append(q, e) /\ Len(r) = m + 1 /\ r[m + 1] = e
                                 /\ \A i \in 1..m : r[i] = q[i]
  <2>1. /\ Append(q, e) \in Seq(Sightings) /\ Len(Append(q, e)) = Len(q) + 1
        /\ \A i \in 1..Len(q) : Append(q, e)[i] = q[i]
        /\ Append(q, e)[Len(q) + 1] = e
    BY ONLY q \in Seq(Sightings), e \in Sightings, AppendProperties
  <2> QED BY <1>8, <2>1
<1>10. /\ player' = player /\ policy' = policy /\ player.there
       /\ weights' = [weights EXCEPT ![act] = x]
       /\ log' = [log EXCEPT !.seen = r]
       /\ fin' = [fin EXCEPT ![f] = Noted(f)]
  BY <1>1, <1>2, <1>3, <1>4, <1>6, <1>7, <1>9 DEF SaveWeights
<1>11. log'.seen = r /\ log'.overlap = log.overlap
  <2>1. log \in Logs
    BY DEF PolicyInv, PolicyTypes, PlayerTypes
  <2> QED BY <1>10, <2>1 DEF Logs
<1>12. weights'[act] = x /\ \A a \in ActionSet \ {act} : weights'[a] = weights[a]
  <2>1. weights \in [ActionSet -> WeightRows]
    BY DEF PolicyInv, PolicyTypes, WeightTypes
  <2> QED BY <1>10, <2>1
<1>13. fin'[f].pc = "observed" /\ \A g \in Finishes \ {f} : fin'[g] = fin[g]
  <2>1. fin \in [Finishes -> FinishRecs]
    BY DEF PolicyInv, PolicyTypes, FinishTypes
  <2> QED BY <1>10, <2>1, NotedFits
\* What the new observation adds to the others of its action.
<1>14. \A a, k : Observations(a, k) = {i \in 1..m : q[i].action = a /\ q[i].n = k}
  BY <1>6, <1>8 DEF Observations
<1>15. \A a, k : Observations(a, k)' = {i \in 1..(m + 1) : r[i].action = a /\ r[i].n = k}
  BY <1>9, <1>11 DEF Observations
<1>16. e.action = act /\ e.n = n /\ e.reward = rw
  BY <1>7
<1>17. ASSUME NEW a, NEW k
       PROVE  /\ Observations(a, k) \subseteq Observations(a, k)' /\ Observations(a, k) \subseteq 1..m
              /\ a # act \/ k # n => Observations(a, k)' = Observations(a, k)
  <2>1. \A i \in 1..m : i \in 1..(m + 1) /\ r[i] = q[i]
    BY <1>8, <1>9
  <2>2. \A i \in 1..(m + 1) : i \in 1..m \/ i = m + 1
    BY <1>8
  <2>3. Observations(a, k) = {i \in 1..m : q[i].action = a /\ q[i].n = k}
    BY <1>14
  <2>4. Observations(a, k)' = {i \in 1..(m + 1) : r[i].action = a /\ r[i].n = k}
    BY <1>15
  <2>5. Observations(a, k) \subseteq Observations(a, k)' /\ Observations(a, k) \subseteq 1..m
    BY <2>1, <2>3, <2>4
  <2>6. ASSUME a # act \/ k # n PROVE Observations(a, k)' \subseteq Observations(a, k)
    <3>1. ~(r[m + 1].action = a /\ r[m + 1].n = k)
      BY <1>9, <1>16, <2>6
    <3> QED BY <2>1, <2>2, <2>3, <2>4, <3>1
  <2> QED BY <2>5, <2>6
<1>18. Observations(act, n)' = Observations(act, n) \union {m + 1} /\ m + 1 \notin 1..m
  <2>1. \A i \in 1..m : i \in 1..(m + 1) /\ i # m + 1
    BY <1>8
  <2>2. \A i \in 1..(m + 1) : i \in 1..m \/ i = m + 1
    BY <1>8
  <2>3. m + 1 \in 1..(m + 1)
    BY <1>8
  <2> QED BY <1>9, <1>14, <1>15, <1>16, <2>1, <2>2, <2>3
<1>19. ASSUME NEW S \in SUBSET (1..m)
       PROVE  /\ SumRewards(S) \in Int /\ SumRewards(S)' = SumRewards(S)
              /\ SumRewards(S \union {m + 1})' = SumRewards(S) + rw
  <2>1. m + 1 \notin S /\ \A i \in 1..Len(q) : i # m + 1
    BY <1>8, <1>18
  <2>2. SumRewards(S) = SumOf(q, S)
    BY <1>6, SumIsSumOf
  <2>3. \A T : SumRewards(T)' = SumOf(r, T)
    <3>1. \A T : SumRewards(T)' = SumOf(log'.seen, T)
      BY DEF SumRewards, SumOf
    <3> QED BY <1>11, <3>1
  <2>4. SumOf(q, S) \in Int /\ SumOf(Append(q, e), S)
                = SumOf(q, S) + (IF Len(q) + 1 \in S THEN e.reward ELSE 0)
    BY ONLY q \in Seq(Sightings), e \in Sightings, SumGrows
  <2>5. PICK T : T = S \union {m + 1}
    OBVIOUS
  <2>6. \A i \in 1..Len(q) : i \in S <=> i \in T
    BY <2>1, <2>5
  <2>7. SumOf(Append(q, e), T) = SumOf(q, S) + (IF Len(q) + 1 \in T THEN e.reward ELSE 0)
    BY ONLY q \in Seq(Sightings), e \in Sightings, <2>6, SumGrows
  <2>8. SumOf(r, S) = SumOf(q, S)
    BY <1>8, <1>9, <2>1, <2>4
  <2>9. SumOf(r, T) = SumOf(q, S) + rw
    BY <1>8, <1>9, <1>16, <2>5, <2>7
  <2> QED BY <2>2, <2>3, <2>4, <2>5, <2>8, <2>9
<1>20. ASSUME NEW v, NEW a, Learned(v, a), a # act \/ v.n # n \/ log.overlap
       PROVE  Learned(v, a)'
  <2>1. PICK S \in SUBSET Observations(a, v.n) :
          /\ v.a = 1 + Cardinality(S) /\ v.b = SumRewards(S)
          /\ log.overlap \/ S = Observations(a, v.n)
    BY <1>20 DEF Learned
  <2>2. S \in SUBSET Observations(a, v.n)' /\ S \in SUBSET (1..m)
    BY <1>17, <2>1
  <2>3. SumRewards(S)' = SumRewards(S)
    BY <1>19, <2>2
  <2>4. log'.overlap \/ S = Observations(a, v.n)'
    BY <1>11, <1>17, <1>20, <2>1
  <2> QED BY <2>1, <2>2, <2>3, <2>4 DEF Learned
<1>21. w.n = policy.features /\ Learned(w, act)
  BY <1>1, <1>2, <1>10 DEF LearnedInv
<1>22. Learned(x, act)'
  <2>1. PICK S \in SUBSET Observations(act, n) :
          /\ wa = 1 + Cardinality(S) /\ wb = SumRewards(S)
          /\ log.overlap \/ S = Observations(act, n)
    BY <1>3, <1>21 DEF Learned
  <2>2. S \in SUBSET (1..m)
    BY <1>17, <2>1
  <2>3. PICK T : T = S \union {m + 1}
    OBVIOUS
  <2>4. T \in SUBSET Observations(act, n)' /\ (log'.overlap \/ T = Observations(act, n)')
    BY <1>11, <1>18, <2>1, <2>3
  <2>5. SumRewards(T)' = wb + rw
    BY <1>19, <2>1, <2>2, <2>3
  <2>6. Cardinality(T) = Cardinality(S) + 1 /\ Cardinality(S) \in Nat
    <3>1. IsFiniteSet(1..m)
      BY FS_Interval
    <3>2. IsFiniteSet(S) /\ m + 1 \notin S
      BY <1>18, <2>2, <3>1, FS_Subset
    <3> QED BY <2>3, <3>2, FS_AddElement, FS_CardinalityType
  <2>7. wa + 1 = 1 + Cardinality(T)
    <3>1. PICK c \in Nat : c = Cardinality(S)
      BY <2>6
    <3> QED BY <2>1, <2>6, <3>1
  <2> QED BY <1>5, <2>4, <2>5, <2>7 DEF Learned
\* The parts of the invariant.
<1>23. ASSUME NEW a \in ActionSet, weights'[a] # NoRow
       PROVE  \E v : v = weights'[a] /\ Learned(v, a)'
  <2>1. CASE a = act
    BY <1>12, <1>22, <2>1
  <2>2. CASE a # act
    <3>1. PICK v : v = weights[a]
      OBVIOUS
    <3>2. Learned(v, a)
      BY <1>10, <1>12, <1>23, <2>2, <3>1 DEF LearnedInv
    <3>3. Learned(v, a)'
      BY <1>20, <2>2, <3>2
    <3> QED BY <1>12, <2>2, <3>1, <3>3
  <2> QED BY <2>1, <2>2
<1>24. ASSUME NEW a \in ActionSet, weights'[a].n # n PROVE Observations(a, n)' = {}
  <2>1. a # act
    BY <1>5, <1>12, <1>24
  <2>2. Observations(a, n) = {}
    BY <1>3, <1>10, <1>12, <1>21, <1>24, <2>1 DEF LearnedInv
  <2> QED BY <1>17, <2>1, <2>2
<1>25. ASSUME NEW i \in 1..(m + 1) PROVE r[i].n <= n
  <2>1. CASE i \in 1..m
    BY <1>3, <1>6, <1>8, <1>9, <1>10, <1>21, <2>1 DEF LearnedInv
  <2>2. CASE i = m + 1
    BY <1>9, <1>16, <2>2
  <2> QED BY <1>8, <2>1, <2>2
<1>26. ASSUME NEW g \in Finishes, fin'[g].pc = "loaded"
       PROVE  /\ fin'[g].copy.n = n
              /\ \E v, a : v = fin'[g].copy /\ a = fin'[g].action /\ Learned(v, a)'
  <2>1. g # f /\ fin'[g] = fin[g]
    BY <1>13, <1>26
  <2>2. g \in InFlight /\ f \in InFlight
    BY <1>1, <1>26, <2>1 DEF InFlight
  <2>3. log.overlap
    BY <1>10, <2>1, <2>2 DEF PolicyInv, OneAtATime
  <2>4. PICK v, a : v = fin[g].copy /\ a = fin[g].action
    OBVIOUS
  <2>5. v.n = policy.features /\ Learned(v, a)
    BY <1>10, <1>26, <2>1, <2>4 DEF LearnedInv
  <2>6. Learned(v, a)'
    BY <1>20, <2>3, <2>5
  <2> QED BY <1>3, <1>21, <2>1, <2>4, <2>5, <2>6
<1>27. n = policy'.features /\ log'.seen = r /\ DOMAIN r = 1..(m + 1)
  BY <1>3, <1>9, <1>10, <1>11, <1>21
<1> QED BY <1>23, <1>24, <1>25, <1>26, <1>27 DEF LearnedInv

LEMMA LengthenLearns == PolicyInv /\ LearnedInv /\ LengthenContext => LearnedInv'
<1> SUFFICES ASSUME PolicyInv, LearnedInv, LengthenContext, player'.there PROVE LearnedInv'
  BY DEF LearnedInv
<1>1. /\ policy.features = 1 /\ player' = player /\ weights' = weights /\ fin' = fin /\ log' = log
      /\ policy' = [policy EXCEPT !.features = 2] /\ InFlight = {}
  BY DEF LengthenContext
<1>2. policy'.features = 2
  BY <1>1 DEF PolicyInv, PolicyTypes, WeightTypes
<1>3. \A f \in Finishes : fin[f].pc # "loaded"
  BY <1>1 DEF InFlight
<1>4. log.seen \in Seq(Sightings)
  BY DEF PolicyInv, PolicyTypes, PlayerTypes, Logs
<1>5. ASSUME NEW i \in DOMAIN log.seen PROVE log.seen[i].n <= 2 /\ log.seen[i].n # 2
  <2>1. log.seen[i].n \in Nat
    <3>1. log.seen[i] \in Sightings
      BY <1>4, ElementOfSeq
    <3> QED BY <3>1 DEF Sightings
  <2>2. log.seen[i].n <= 1
    BY <1>1 DEF LearnedInv
  <2> QED BY <2>1, <2>2
<1>6. \A a : Observations(a, 2) = {} /\ Observations(a, 2)' = {}
  BY <1>1, <1>5 DEF Observations
<1>7. ASSUME NEW a \in ActionSet, weights[a] # NoRow PROVE Learned(weights[a], a)'
  <2>1. PICK v : v = weights[a] /\ Learned(v, a)
    BY <1>1, <1>7 DEF LearnedInv
  <2>2. Learned(v, a)'
    BY <1>1, <2>1, LearnedStays
  <2> QED BY <1>1, <2>1, <2>2
<1> QED BY <1>1, <1>2, <1>3, <1>5, <1>6, <1>7 DEF LearnedInv

LEMMA LearnedStep ==
    PolicyInv /\ LearnedInv /\ [RatingNext \/ PolicyNext]_policyVars => LearnedInv'
<1> SUFFICES ASSUME PolicyInv, LearnedInv, [RatingNext \/ PolicyNext]_policyVars PROVE LearnedInv'
  OBVIOUS
<1>1. CASE UNCHANGED policyVars
  <2>1. Quiet
    BY <1>1 DEF policyVars, Quiet
  <2> QED BY <2>1, QuietLearns
<1>2. CASE BeginLink \/ Link \/ UpdateMe
  BY <1>2, LinksAreQuiet, QuietLearns
<1>3. CASE \E f \in Finishes :
              StoreGame(f) \/ Rate(f) \/ Decide(f) \/ ObservationFails(f) \/ AnswerFinish(f)
  BY <1>3, FinishesAreQuiet, QuietLearns
<1>4. CASE \E f \in Finishes : LoadWeights(f) \/ SaveWeights(f)
  BY <1>4, LoadLearns, SaveLearns
<1>5. CASE ErasePlayer
  <2>1. player'.there = FALSE
    BY <1>5 DEF ErasePlayer
  <2> QED BY <2>1 DEF LearnedInv
<1>6. CASE LengthenContext
  BY <1>6, LengthenLearns
<1> QED BY <1>1, <1>2, <1>3, <1>4, <1>5, <1>6 DEF RatingNext, PolicyNext

\* The deltas handed out add up to what the rating has moved; what the bandit has
\* learned of an action is the sum of whole observations under the present context,
\* none of them twice, and of all of them; no loss is a drill, no game a puzzle; and no
\* weights outlive the account: but for requests that cross, and for any number of them.
THEOREM PolicyIsSafe == PolicySpec => []PolicySafe
<1>1. PolicyInit => LearnedInv
  BY LearnedStarts
<1>2. PolicyInv /\ LearnedInv /\ [RatingNext \/ PolicyNext]_policyVars => LearnedInv'
  BY LearnedStep
<1>3. PolicySpec => []LearnedInv
  BY <1>1, <1>2, PolicyInvariance, PTL DEF PolicySpec
<1>4. LearnedInv => WeightsAreObservations
  BY DEF LearnedInv, Learned, WeightsAreObservations
<1>5. PolicyInv /\ LearnedInv => PolicySafe
  BY <1>4, PolicyHolds DEF PolicySafe
<1> QED BY <1>3, <1>5, PolicyInvariance, PTL

-----------------------------------------------------------------------------
(* The steps of a finish, a link and a decision *)

\* Which step sets what a finish decides or shows.
LEMMA OthersDecideNothing ==
    ASSUME PolicyInv, [RatingNext \/ PolicyNext]_policyVars, NEW f \in Finishes,
           fin'[f].action = "PLAN_UPDATE", fin[f].action # "PLAN_UPDATE"
    PROVE  Decide(f)
<1>1. fin \in [Finishes -> FinishRecs]
  BY DEF PolicyInv, PolicyTypes, FinishTypes
<1>2. PICK u \in FinishRecs : u = Unsent /\ u.action = "NONE"
  BY UnsentFits
<1>3. fin'[f] # fin[f]
  OBVIOUS
<1>4. CASE \E g \in Finishes : StoreGame(g)
  <2>1. PICK g \in Finishes : StoreGame(g)
    BY <1>4
  <2>2. PICK b \in Int, c \in Int, claim \in Reports, figures \in Reports :
          fin' = [fin EXCEPT ![g] = [u EXCEPT !.pc = "stored", !.before = b, !.confidence = c,
                      !.result = claim.result, !.accuracy = figures.accuracy, !.weak = figures.weak]]
    <3>1. player.rating \in Int /\ player.confidence \in Int
      <4>1. player \in PlayerRows
        BY DEF PolicyInv, PolicyTypes, PlayerTypes
      <4>2. player.rating \in Ratings /\ player.confidence \in 0..100
        BY <4>1 DEF PlayerRows
      <4>3. Ratings \subseteq Int /\ 0..100 \subseteq Int
        BY DEF Ratings
      <4> QED BY <4>2, <4>3
    <3>2. PICK engine \in {"answers", "absent", "fails"}, claim \in Reports, truth \in Reports :
             /\ games' = Append(games, Authoritative(engine, claim, truth).weak)
             /\ fin' = [fin EXCEPT ![g] =
                 [Unsent EXCEPT !.pc = "stored", !.before = player.rating,
                                !.confidence = player.confidence, !.result = claim.result,
                                !.accuracy = Authoritative(engine, claim, truth).accuracy,
                                !.weak = Authoritative(engine, claim, truth).weak]]
      BY <2>1 DEF StoreGame
    <3>3. Authoritative(engine, claim, truth) \in Reports
      BY DEF Authoritative
    <3> QED BY <1>2, <3>1, <3>2, <3>3
  <2>3. f = g
    BY <1>1, <1>3, <2>2
  <2>4. fin'[f] = [u EXCEPT !.pc = "stored", !.before = b, !.confidence = c,
                      !.result = claim.result, !.accuracy = figures.accuracy, !.weak = figures.weak]
    BY <1>1, <2>2, <2>3
  <2>5. fin'[f].action = u.action
    BY <1>2, <2>4 DEF FinishRecs
  <2> QED BY <1>2, <2>5
<1>5. CASE \E g \in Finishes : Rate(g)
  <2>1. PICK g \in Finishes : Rate(g)
    BY <1>5
  <2>2. fin' = [fin EXCEPT ![g].pc = "rated"]
    BY <2>1 DEF Rate
  <2>3. fin'[f].action = fin[f].action
    BY <1>1, <2>2 DEF FinishRecs
  <2> QED BY <2>3
<1>6. CASE \E g \in Finishes : Decide(g)
  <2>1. PICK g \in Finishes : Decide(g)
    BY <1>6
  <2>2. PICK r : fin' = [fin EXCEPT ![g] = r]
    BY <2>1 DEF Decide
  <2>3. f = g
    BY <1>1, <1>3, <2>2
  <2> QED BY <2>1, <2>3
<1>7. CASE \E g \in Finishes : LoadWeights(g)
  <2>1. PICK g \in Finishes : LoadWeights(g)
    BY <1>7
  <2>2. PICK w : fin' = [fin EXCEPT ![g].pc = "loaded", ![g].copy = w]
    BY <2>1 DEF LoadWeights
  <2>3. fin'[f].action = fin[f].action
    BY <1>1, <2>2 DEF FinishRecs
  <2> QED BY <2>3
<1>8. CASE \E g \in Finishes : SaveWeights(g) \/ ObservationFails(g)
  <2>1. PICK g \in Finishes : SaveWeights(g) \/ ObservationFails(g)
    BY <1>8
  <2>2. fin' = [fin EXCEPT ![g] = Noted(g)]
    BY <2>1 DEF SaveWeights, ObservationFails
  <2>3. f = g /\ fin'[f] = Noted(f)
    BY <1>1, <1>3, <2>2
  <2> QED BY <2>3, NotedFits
<1>9. CASE \E g \in Finishes : AnswerFinish(g)
  <2>1. PICK g \in Finishes : AnswerFinish(g)
    BY <1>9
  <2>2. PICK s : fin' = [fin EXCEPT ![g] = [u EXCEPT !.pc = "answered", !.shown = s]]
    BY <1>2, <2>1 DEF AnswerFinish
  <2>3. fin'[f] = [u EXCEPT !.pc = "answered", !.shown = s]
    BY <1>1, <1>3, <2>2
  <2>4. fin'[f].action = u.action
    BY <1>2, <2>3 DEF FinishRecs
  <2> QED BY <1>2, <2>4
<1>10. CASE ErasePlayer
  <2>1. fin' = [g \in Finishes |->
           IF fin[g].pc \in {"stored", "rated"} THEN [u EXCEPT !.pc = "answered"] ELSE fin[g]]
    BY <1>2, <1>10 DEF ErasePlayer
  <2>2. fin'[f] = [u EXCEPT !.pc = "answered"]
    BY <1>3, <2>1
  <2>3. fin'[f].action = u.action
    BY <1>2, <2>2 DEF FinishRecs
  <2> QED BY <1>2, <2>3
<1>11. CASE BeginLink \/ Link \/ UpdateMe \/ LengthenContext \/ UNCHANGED policyVars
  <2>1. UNCHANGED fin
    BY <1>11 DEF BeginLink, Link, UpdateMe, LengthenContext, policyVars
  <2> QED BY <1>3, <2>1
<1> QED BY <1>4, <1>5, <1>6, <1>7, <1>8, <1>9, <1>10, <1>11 DEF RatingNext, PolicyNext

LEMMA PatternFollowed ==
    ASSUME PolicyInv, [RatingNext \/ PolicyNext]_policyVars, NEW f \in Finishes,
           fin'[f].action = "PLAN_UPDATE", fin[f].action # "PLAN_UPDATE"
    PROVE  LET n == Len(games)
           IN  /\ n >= 3 /\ Len(games[n - 1]) = 1 /\ games[n - 2] = games[n - 1]
               /\ games[n] # <<>> /\ Last(games[n]) = games[n - 1][1]
<1>1. Decide(f)
  BY OthersDecideNothing
<1>2. PICK act : act = Decision(f, Reward(f))
  OBVIOUS
<1>3. act = "PLAN_UPDATE"
  <2>1. fin \in [Finishes -> FinishRecs]
    BY DEF PolicyInv, PolicyTypes, FinishTypes
  <2>2. PICK u \in FinishRecs : u = Unsent
    BY UnsentFits
  <2>3. PICK d : d = Reward(f)
    OBVIOUS
  <2>4. fin' = [fin EXCEPT ![f] = [u EXCEPT !.pc = "decided", !.reward = d, !.action = act]]
    BY <1>1, <1>2, <2>2, <2>3 DEF Decide
  <2>5. fin'[f] = [u EXCEPT !.pc = "decided", !.reward = d, !.action = act]
    BY <2>1, <2>4
  <2>6. fin'[f].action = act
    BY <2>2, <2>5 DEF FinishRecs
  <2> QED BY <2>6
<1>4. PICK K : K = RecentWeaknesses /\ Repeated(K)
  BY <1>2, <1>3 DEF Decision
<1>5. games \in Seq(Seq(STRING)) /\ \A i \in DOMAIN games : IsInjective(games[i])
  BY DEF PolicyInv, PolicyTypes, GamesTypes
<1>6. PICK n \in Nat : n = Len(games) /\ DOMAIN games = 1..n
  BY <1>5, LenProperties
<1>7. \A i : KeysOf(i) \in Seq(STRING) /\ IsInjective(KeysOf(i))
             /\ (i \notin 1..n => KeysOf(i) = <<>>) /\ (i \in 1..n => KeysOf(i) = games[i])
  <2>1. <<>> \in Seq(STRING) /\ IsInjective(<<>>)
    BY EmptySeq DEF IsInjective
  <2>2. \A i \in 1..n : games[i] \in Seq(STRING)
    BY <1>5, <1>6, ElementOfSeq
  <2> QED BY <1>5, <1>6, <2>1, <2>2 DEF KeysOf
<1>8. PICK A \in Seq(STRING), B \in Seq(STRING), C \in Seq(STRING) :
          /\ A = KeysOf(n) /\ B = KeysOf(n - 1) /\ C = KeysOf(n - 2)
          /\ IsInjective(A) /\ IsInjective(B) /\ IsInjective(C)
  BY <1>7
<1>9. K = A \o B \o C
  BY <1>4, <1>6, <1>8 DEF RecentWeaknesses
<1>10. K \in Seq(STRING)
  BY <1>9, ConcatProperties
<1>11. Len(A) >= 1 /\ Len(B) = 1 /\ Len(C) = 1 /\ C[1] = B[1] /\ A[Len(A)] = B[1]
  <2>1. Len(K) >= 3 /\ K[Len(K)] = K[Len(K) - 1] /\ K[Len(K)] = K[Len(K) - 2]
    BY <1>4, <1>10, RepeatedKeys
  <2>2. IsInjective(A) /\ IsInjective(B) /\ IsInjective(C)
    BY <1>8
  <2> QED BY ONLY <1>9, <2>1, <2>2, A \in Seq(STRING), B \in Seq(STRING), C \in Seq(STRING), TailKeys
<1>12. n - 2 \in 1..n
  <2>1. C # <<>>
    <3>1. Len(<<>>) = 0
      OBVIOUS
    <3>2. CASE C = <<>>
      <4>1. Len(C) = 0
        BY <3>1, <3>2
      <4> QED BY <1>11, <4>1
    <3> QED BY <3>2
  <2> QED BY <1>7, <1>8, <2>1
<1>13. n >= 3 /\ n \in 1..n /\ n - 1 \in 1..n
  BY <1>12
<1>14. A = games[n] /\ B = games[n - 1] /\ C = games[n - 2]
  BY <1>7, <1>8, <1>12, <1>13
<1>15. C = B
  BY <1>11, SeqEqual
<1>16. A # <<>>
  BY <1>11, EmptySeq
<1> QED BY <1>6, <1>11, <1>13, <1>14, <1>15, <1>16 DEF Last

LEMMA BurnedStays ==
    ASSUME PolicyInv, [RatingNext \/ PolicyNext]_policyVars, NEW f \in Finishes,
           policy.bandit, fin[f].pc = "observed", fin'[f].pc = "answered",
           LoadOrInit(weights[fin'[f].shown]).b < 0, NEW a \in ActionSet
    PROVE  LoadOrInit(weights[a]).a > 1
<1>1. fin'[f].shown = Selected
  <2>1. PICK old \in FinishRecs : old = fin[f] /\ old.pc = "observed"
    BY DEF PolicyInv, PolicyTypes, FinishTypes
  <2>2. fin \in [Finishes -> FinishRecs]
    BY DEF PolicyInv, PolicyTypes, FinishTypes
  <2>3. ASSUME NEW g \in Finishes, NEW r, fin' = [fin EXCEPT ![g] = r] PROVE g = f /\ r = fin'[f]
    <3>1. fin'[f] # fin[f]
      OBVIOUS
    <3> QED BY <2>2, <2>3, <3>1
  <2>4. CASE \E g \in Finishes : AnswerFinish(g)
    <3>1. PICK g \in Finishes : AnswerFinish(g)
      BY <2>4
    <3>2. PICK u \in FinishRecs : u = Unsent
      BY UnsentFits
    <3>3. PICK s : s = IF policy.bandit THEN Selected ELSE fin[g].action
      OBVIOUS
    <3>4. fin' = [fin EXCEPT ![g] = [u EXCEPT !.pc = "answered", !.shown = s]]
      BY <3>1, <3>2, <3>3 DEF AnswerFinish
    <3>5. fin'[f] = [u EXCEPT !.pc = "answered", !.shown = s]
      BY <2>3, <3>4
    <3>6. fin'[f].shown = s
      BY <3>2, <3>5 DEF FinishRecs
    <3> QED BY <3>3, <3>6
  <2>5. CASE \E g \in Finishes : \/ StoreGame(g) \/ Rate(g) \/ Decide(g) \/ LoadWeights(g)
                                 \/ SaveWeights(g) \/ ObservationFails(g)
    <3>1. PICK g \in Finishes : \/ StoreGame(g) \/ Rate(g) \/ Decide(g) \/ LoadWeights(g)
                                \/ SaveWeights(g) \/ ObservationFails(g)
      BY <2>5
    <3>2. fin[g].pc # "observed"
      BY <3>1 DEF StoreGame, Rate, Decide, LoadWeights, SaveWeights, ObservationFails
    <3>3. PICK r : fin' = [fin EXCEPT ![g] = r]
      BY <3>1 DEF StoreGame, Rate, Decide, LoadWeights, SaveWeights, ObservationFails
    <3> QED BY <2>3, <3>2, <3>3
  <2>6. CASE ErasePlayer
    <3>1. fin'[f] = fin[f]
      BY <2>6 DEF ErasePlayer
    <3> QED BY <3>1
  <2>7. CASE BeginLink \/ Link \/ UpdateMe \/ LengthenContext \/ UNCHANGED policyVars
    <3>1. UNCHANGED fin
      BY <2>7 DEF BeginLink, Link, UpdateMe, LengthenContext, policyVars
    <3> QED BY <3>1
  <2> QED BY <2>4, <2>5, <2>6, <2>7 DEF RatingNext, PolicyNext
<1>2. PICK s \in ActionSet : s = Selected /\ \A c \in ActionSet : UcbScore(weights[s]) >= UcbScore(weights[c])
  BY SelectedFits DEF PolicyInv
<1>3. UcbScore(weights[s]) < 1000 /\ UcbScore(weights[s]) \in Int
  BY <1>1, <1>2, ScoreFits DEF PolicyInv
<1>4. UcbScore(weights[a]) \in Int /\ (LoadOrInit(weights[a]).a <= 1 => UcbScore(weights[a]) = 1000)
  BY ScoreFits DEF PolicyInv
<1>5. LoadOrInit(weights[a]).a \in Nat
  BY LoadedFits DEF PolicyInv, WeightRows
<1>6. UcbScore(weights[a]) # 1000
  <2>1. UcbScore(weights[s]) >= UcbScore(weights[a])
    BY <1>2
  <2> QED BY <1>3, <1>4, <2>1
<1>7. ~(LoadOrInit(weights[a]).a <= 1)
  BY <1>4, <1>6
<1> QED BY <1>5, <1>7

LEMMA LinkKeepsOwn ==
    ASSUME PolicyInv, [RatingNext \/ PolicyNext]_policyVars, seeding.link = "linking",
           player.there, player' # player, seeding'.link = "linked"
    PROVE  log.overlap \/ IsDefault
<1>1. Link
  <2>1. seeding' # seeding
    OBVIOUS
  <2>2. ~UNCHANGED policyVars
    BY <2>1 DEF policyVars
  <2>3. \A f \in Finishes : ~(\/ StoreGame(f) \/ Rate(f) \/ Decide(f) \/ LoadWeights(f)
                              \/ SaveWeights(f) \/ ObservationFails(f) \/ AnswerFinish(f))
    BY <2>1 DEF StoreGame, Rate, Decide, LoadWeights, SaveWeights, ObservationFails, AnswerFinish
  <2>4. ~BeginLink /\ ~ErasePlayer /\ ~LengthenContext
    BY <2>1 DEF BeginLink, ErasePlayer, LengthenContext
  <2>5. ~UpdateMe
    <3>1. CASE UpdateMe
      <4>1. seeding' = [seeding EXCEPT !.patched = TRUE] /\ seeding \in Seedings
        BY <3>1 DEF UpdateMe, PolicyInv, PolicyTypes, PlayerTypes
      <4>2. seeding'.link = seeding.link
        BY <4>1 DEF Seedings
      <4> QED BY <4>2
    <3> QED BY <3>1
  <2> QED BY <2>2, <2>3, <2>4, <2>5 DEF RatingNext, PolicyNext
<1>2. seeding.fresh
  <2>1. PICK perfs \in Profiles : Moved(AfterLink(perfs), InFlight # {})
    BY <1>1 DEF Link
  <2>2. AfterLink(perfs) # player
    BY <2>1 DEF Moved
  <2> QED BY <2>2 DEF AfterLink
<1> QED BY <1>2 DEF PolicyInv, OneAtATime

\* A link overwrites no rating but the one accounts start with, a study plan changes
\* only for a weakness of three games in a row, and an action that cost rating is
\* not shown while another one is untried.
THEOREM PolicyMovesSoundly == PolicySpec => PolicySteps
<1>1. PolicyInv /\ [RatingNext \/ PolicyNext]_policyVars =>
        [seeding.link = "linking" /\ player.there /\ player'.there /\ player' # player
            /\ seeding'.link = "linked"
            => log.overlap \/ IsDefault]_policyVars
  BY LinkKeepsOwn
<1>2. PolicyInv /\ [RatingNext \/ PolicyNext]_policyVars =>
        [\A f \in Finishes :
            fin'[f].action = "PLAN_UPDATE" /\ fin[f].action # "PLAN_UPDATE" =>
              LET n == Len(games)
              IN  /\ n >= 3 /\ Len(games[n - 1]) = 1 /\ games[n - 2] = games[n - 1]
                  /\ games[n] # <<>> /\ Last(games[n]) = games[n - 1][1]]_policyVars
  BY PatternFollowed
<1>3. PolicyInv /\ [RatingNext \/ PolicyNext]_policyVars =>
        [\A f \in Finishes :
            policy.bandit /\ fin[f].pc = "observed" /\ fin'[f].pc = "answered"
              /\ LoadOrInit(weights[fin'[f].shown]).b < 0
              => \A a \in ActionSet : LoadOrInit(weights[a]).a > 1]_policyVars
  BY BurnedStays
<1>4. PolicySpec => OwnRatingKept
  BY <1>1, PolicyInvariance, PTL DEF PolicySpec, OwnRatingKept
<1>5. PolicySpec => PlanFollowsPattern
  BY <1>2, PolicyInvariance, PTL DEF PolicySpec, PlanFollowsPattern
<1>6. PolicySpec => BurnedNotRepeated
  BY <1>3, PolicyInvariance, PTL DEF PolicySpec, BurnedNotRepeated
<1> QED BY <1>4, <1>5, <1>6 DEF PolicySteps
=============================================================================
